---- MODULE Spec2Model ----
(***************************************************************************)
(* Model of mmc's memory-mapped transform engine: the FileAndMapping       *)
(* operations of src/file.c, the driver loop run_transformer_app of        *)
(* src/compress.c (common/app.c) and the codec adapters that plug into it  *)
(* (LZ4 / Zstandard one-shot compressors, zlib inflate and Zstandard       *)
(* streaming decompressors).                                               *)
(*                                                                         *)
(* The kernel is modelled next to the program: the set of open             *)
(* descriptors, the real extent of each mapping (which addresses are       *)
(* mapped and which file offset they show) and the output path (exists,    *)
(* on-disk length, which bytes were written where).  The program only      *)
(* sees its FileAndMapping structs; the properties compare the two.        *)
(***************************************************************************)
EXTENDS Integers, Sequences, FiniteSets, TLC

----------------------------------------------------------------------------
(* Bounds of the exploration *)

\* adapter calls explored per run of run_transformer_app
MaxRuns == 3

\* the same in the forced-growth scenario, whose files are small
MaxDeepRuns == 8

\* the forced-growth scenario: a stream of ForcedGrowthStream bytes that
\* decompresses to ForcedGrowthFactor times as many
ForcedGrowthStream == 20
ForcedGrowthFactor == 50

\* the termination scenario: a stream of TerminationStream bytes that
\* decompresses to TerminationLen bytes, small enough for every run to get
\* to its end within MaxLiveRuns adapter calls
TerminationStream == 3
TerminationLen == 12
MaxLiveRuns == 20

\* words on a command line, after the name of the executable
MaxArgs == 4

\* the span-boundary scenario: originals of up to MaxSpans whole spans
MaxSpans == 2

\* uncompressed lengths handed to the DEFLATE sizing policy: up to
\* MaxOffset bytes around each of the first MaxBlocks multiples of the block
\* size
MaxBlocks == 2
MaxOffset == 3

----------------------------------------------------------------------------
(* Program constants *)

UNMAP_SPAN_SIZE == 65536
EXIT_SUCCESS == 0
EXIT_FAILURE == 1

\* size_t: unsigned, arithmetic wraps.  The build has 64-bit size_t and a
\* 47-bit user address space; TLC's integers are 32 bits wide, so the model
\* keeps the same shape at a width it can compute with.  The only wrap the
\* code can produce is 0 - 1 in unmap_unused_pages.
SIZE_BITS == 30
SIZE_MOD == 2 ^ SIZE_BITS
TASK_SIZE == 2 ^ (SIZE_BITS - 1)

SizeT(x) == x % SIZE_MOD

Min(a, b) == IF b < a THEN b ELSE a

\* descriptors handed out by open(2)
INPUT_FD == 3
OUTPUT_FD == 4

----------------------------------------------------------------------------
(* Addresses and mappings *)

\* An address is a pair (area, offset in the area); mremap with
\* MREMAP_MAYMOVE may hand back a fresh area.
NULL_PTR == [rid |-> 0, off |-> 0]

PtrAdd(p, k) == [p EXCEPT !.off = @ + k]

\* what the kernel has mapped for one file: addresses rid:[lo, hi) show the
\* file bytes foff, foff + 1, ...
NO_REGION == [rid |-> 0, lo |-> 0, hi |-> 0, foff |-> 0]

\* file offset shown at address p, or -1 if p is not mapped
FileOffsetAt(r, p) ==
  IF r.rid # 0 /\ p.rid = r.rid /\ p.off >= r.lo /\ p.off < r.hi
  THEN r.foff + (p.off - r.lo)
  ELSE -1

\* are the len bytes at p all mapped
RangeMapped(r, p, len) ==
  len = 0 \/ (r.rid # 0 /\ p.rid = r.rid /\ p.off >= r.lo /\ p.off + len <= r.hi)

\* munmap(2): EINVAL when the length is 0 or the range leaves the address
\* space, otherwise the
\* call may still fail (ok = FALSE stands for ENOMEM); on success the range
\* is removed from the mapping.
munmap(r, p, len, ok) ==
  IF len = 0 \/ len > TASK_SIZE \/ ~ok
  THEN [ret |-> -1, region |-> r]
  ELSE IF r.rid = 0 \/ p.rid # r.rid \/ p.off + len <= r.lo \/ p.off >= r.hi
       THEN [ret |-> 0, region |-> r]
  ELSE IF p.off <= r.lo /\ p.off + len >= r.hi
       THEN [ret |-> 0, region |-> NO_REGION]
  ELSE IF p.off <= r.lo
       THEN [ret |-> 0,
             region |-> [r EXCEPT !.lo = p.off + len,
                                  !.foff = r.foff + (p.off + len - r.lo)]]
  ELSE [ret |-> 0, region |-> [r EXCEPT !.hi = p.off]]

\* mremap(2) with MREMAP_MAYMOVE: the old range must be the mapping; the
\* grown mapping stays in place or moves to a fresh area (moved).
mremap(r, p, old_size, new_size, ok, moved) ==
  IF ~ok \/ r.rid = 0 \/ p.rid # r.rid \/ p.off # r.lo
        \/ old_size # r.hi - r.lo \/ new_size = 0
  THEN [failed |-> TRUE, ptr |-> NULL_PTR, region |-> r]
  ELSE IF moved
       THEN [failed |-> FALSE,
             ptr |-> [rid |-> r.rid + 2, off |-> 0],
             region |-> [rid |-> r.rid + 2, lo |-> 0, hi |-> new_size,
                         foff |-> r.foff]]
       ELSE [failed |-> FALSE,
             ptr |-> p,
             region |-> [r EXCEPT !.hi = r.lo + new_size]]

\* mmap(2) of a whole file at offset 0: EINVAL for length 0
mmap(rid, len, ok) ==
  IF ~ok \/ len = 0
  THEN [failed |-> TRUE, ptr |-> NULL_PTR, region |-> NO_REGION]
  ELSE [failed |-> FALSE,
        ptr |-> [rid |-> rid, off |-> 0],
        region |-> [rid |-> rid, lo |-> 0, hi |-> len, foff |-> 0]]

----------------------------------------------------------------------------
(* src/file.c *)

\* a FileAndMapping that no call has filled in yet
UNSET_FILE ==
  [fd |-> -1, file_size |-> 0, mapping |-> NULL_PTR, mapping_size |-> 0,
   mapping_offset |-> 0]

\* open_and_map_file: at = "open" | "fstat" | "mmap" | "none" is the first
\* system call that fails.  Result: error, the struct, the mapping, whether
\* the descriptor is still open.
open_and_map_file(size, at) ==
  LET m == mmap(1, size, at # "mmap") IN
  IF at = "open"
  THEN [error |-> TRUE, file |-> UNSET_FILE, region |-> NO_REGION,
        fd_open |-> FALSE]
  ELSE IF at = "fstat" \/ m.failed
  THEN [error |-> TRUE, file |-> UNSET_FILE, region |-> NO_REGION,
        fd_open |-> FALSE]
  ELSE [error |-> FALSE,
        file |-> [fd |-> INPUT_FD, file_size |-> size, mapping |-> m.ptr,
                  mapping_size |-> size, mapping_offset |-> 0],
        region |-> m.region, fd_open |-> TRUE]

\* create_and_map_file: at = "open" | "ftruncate" | "mmap" | "none".
\* created: the path was created/truncated; disk_len: its length now.
create_and_map_file(size, at) ==
  LET m == mmap(2, size, at # "mmap") IN
  IF at = "open"
  THEN [error |-> TRUE, file |-> UNSET_FILE, region |-> NO_REGION,
        fd_open |-> FALSE, created |-> FALSE, disk_len |-> 0]
  ELSE IF size > 0 /\ at = "ftruncate"
  THEN [error |-> TRUE, file |-> UNSET_FILE, region |-> NO_REGION,
        fd_open |-> TRUE, created |-> TRUE, disk_len |-> 0]
  ELSE IF m.failed
  THEN [error |-> TRUE, file |-> UNSET_FILE, region |-> NO_REGION,
        fd_open |-> FALSE, created |-> TRUE, disk_len |-> size]
  ELSE [error |-> FALSE,
        file |-> [fd |-> OUTPUT_FD, file_size |-> size, mapping |-> m.ptr,
                  mapping_size |-> size, mapping_offset |-> 0],
        region |-> m.region, fd_open |-> TRUE, created |-> TRUE,
        disk_len |-> size]

\* (a slip: the spans are rounded up instead of down)
num_spans_to_unmap_ceil(first_unused_offset) ==
  SizeT(first_unused_offset + UNMAP_SPAN_SIZE - 1) \div UNMAP_SPAN_SIZE

\* number of whole spans unmap_unused_pages releases
num_spans_to_unmap(first_unused_offset) ==
  SizeT(first_unused_offset - 1) \div UNMAP_SPAN_SIZE

\* (a slip: mapping_offset is not advanced)
advance_mapping_no_offset(file, num_bytes_to_unmap) ==
  [file EXCEPT !.mapping = PtrAdd(file.mapping, num_bytes_to_unmap),
               !.mapping_size = SizeT(@ - num_bytes_to_unmap)]

\* the struct after num_bytes_to_unmap bytes were released at its front
advance_mapping(file, num_bytes_to_unmap) ==
  [file EXCEPT !.mapping = PtrAdd(file.mapping, num_bytes_to_unmap),
               !.mapping_size = SizeT(@ - num_bytes_to_unmap),
               !.mapping_offset = SizeT(@ + num_bytes_to_unmap)]

\* (a slip: the struct and the offset are advanced before munmap is known
\* to have succeeded)
unmap_unused_pages_advancing_first(file, r, first_unused_offset, ok) ==
  LET spans == num_spans_to_unmap(first_unused_offset)
      num_bytes_to_unmap == SizeT(spans * UNMAP_SPAN_SIZE)
      u == munmap(r, file.mapping, num_bytes_to_unmap, ok)
  IN
  IF spans = 0
  THEN [error |-> FALSE, file |-> file, region |-> r,
        offset |-> first_unused_offset, unmapped |-> 0, called |-> FALSE]
  ELSE [error |-> u.ret = -1,
        file |-> advance_mapping(file, num_bytes_to_unmap),
        region |-> u.region,
        offset |-> SizeT(first_unused_offset - num_bytes_to_unmap),
        unmapped |-> IF u.ret = -1 THEN 0 ELSE num_bytes_to_unmap,
        called |-> TRUE]

\* unmap_unused_pages(file, &first_unused_offset); ok: munmap can succeed
unmap_unused_pages(file, r, first_unused_offset, ok) ==
  LET spans == num_spans_to_unmap(first_unused_offset)
      num_bytes_to_unmap == SizeT(spans * UNMAP_SPAN_SIZE)
      u == munmap(r, file.mapping, num_bytes_to_unmap, ok)
  IN
  IF spans = 0
  THEN [error |-> FALSE, file |-> file, region |-> r,
        offset |-> first_unused_offset, unmapped |-> 0, called |-> FALSE]
  ELSE IF u.ret = -1
  THEN [error |-> TRUE, file |-> file, region |-> r,
        offset |-> first_unused_offset, unmapped |-> 0, called |-> TRUE]
  ELSE [error |-> FALSE,
        file |-> advance_mapping(file, num_bytes_to_unmap),
        region |-> u.region,
        offset |-> SizeT(first_unused_offset - num_bytes_to_unmap),
        unmapped |-> num_bytes_to_unmap, called |-> TRUE]

\* (a slip: the file grows by one span at a time)
size_increment_of_nothing(file) == 0

size_increment_of_one_span(file) == UNMAP_SPAN_SIZE

\* size_increment of expand_output_mapping
size_increment(file) == file.file_size

\* (a slip: the mapping grows by the new file size, not by the increment)
grown_mapping_size_by_new_size(file) ==
  SizeT(file.mapping_size + file.file_size + size_increment(file))

\* new_mapping_size of expand_output_mapping
grown_mapping_size(file) ==
  SizeT(file.mapping_size + size_increment(file))

\* the early return of expand_output_mapping
expand_not_needed(file, first_unused_offset) ==
  file.mapping_size < first_unused_offset

\* expand_output_mapping(file, first_unused_offset); at = "ftruncate" |
\* "mremap" | "none" is the system call that fails.  disk_len: the on-disk
\* length after the call.
expand_output_mapping(file, r, disk_len, first_unused_offset, at, moved) ==
  LET new_size == SizeT(file.file_size + size_increment(file))
      new_mapping_size == grown_mapping_size(file)
      m == mremap(r, file.mapping, file.mapping_size, new_mapping_size,
                  at # "mremap", moved)
  IN
  IF expand_not_needed(file, first_unused_offset)
  THEN [error |-> FALSE, file |-> file, region |-> r, disk_len |-> disk_len,
        grew |-> FALSE, step |-> "none"]
  ELSE IF at = "ftruncate"
  THEN [error |-> TRUE, file |-> file, region |-> r, disk_len |-> disk_len,
        grew |-> FALSE, step |-> "ftruncate"]
  ELSE IF m.failed
  THEN [error |-> TRUE, file |-> [file EXCEPT !.file_size = new_size],
        region |-> r, disk_len |-> new_size, grew |-> FALSE,
        step |-> "mremap"]
  ELSE [error |-> FALSE,
        file |-> [file EXCEPT !.file_size = new_size,
                              !.mapping = m.ptr,
                              !.mapping_size = new_mapping_size],
        region |-> m.region, disk_len |-> new_size, grew |-> TRUE,
        step |-> "none"]

\* (a slip: the descriptor is not closed when munmap failed)
free_file_leaking(file, r, munmap_ok, close_ok) ==
  LET u == munmap(r, file.mapping, file.mapping_size, munmap_ok) IN
  IF u.ret = -1
  THEN [error |-> TRUE, region |-> r, closed |-> FALSE]
  ELSE [error |-> ~close_ok, region |-> u.region, closed |-> TRUE]

\* free_file(file): munmap_ok / close_ok say whether the calls can succeed.
\* closed: close(2) was called on the descriptor.
free_file(file, r, munmap_ok, close_ok) ==
  LET u == munmap(r, file.mapping, file.mapping_size, munmap_ok) IN
  IF u.ret = -1
  THEN [error |-> TRUE, region |-> r, closed |-> TRUE]
  ELSE [error |-> ~close_ok, region |-> u.region, closed |-> TRUE]

----------------------------------------------------------------------------
(* The codec adapters (AppParams: size, init, run, cleanup) *)

CompressApps == {"lz4_compress", "zstd_compress"}
DecompressApps == {"inflate", "zstd_decompress"}

\* run_compression_app / run_decompression_app take any AppParams: an
\* adapter whose run has nothing to do and says so on its first call
InterfaceApps == {"finish_at_once"}

\* uInt of zlib's avail_in / avail_out is narrower than size_t
UINT_BITS == 24
UINT_MAX == 2 ^ UINT_BITS - 1

\* inflate.c run(): the output is large enough for the worst expansion
INFLATE_MAX_RATIO == 1032

\* ZSTD_compressBound (zstd.h, ZSTD_COMPRESSBOUND)
ZSTD_compressBound(n) ==
  n + (n \div 256) + (IF n < 131072 THEN (131072 - n) \div 2048 ELSE 0)

\* LZ4F_compressFrameBound with the default preferences: 64 KiB blocks,
\* 4 bytes per block header, 19 bytes of frame header, 4 of end mark
LZ4F_compressFrameBound(n) ==
  n + 4 * ((n + 65535) \div 65536) + 23

\* (a slip: the decompressors guess twice the input length)
size_guessing_double(a, input_file_size) ==
  CASE a = "lz4_compress" -> LZ4F_compressFrameBound(input_file_size)
    [] a = "zstd_compress" -> ZSTD_compressBound(input_file_size)
    [] OTHER -> 2 * input_file_size

\* params->size(input_file_size, arg)
size(a, input_file_size) ==
  CASE a = "lz4_compress" -> LZ4F_compressFrameBound(input_file_size)
    [] a = "zstd_compress" -> ZSTD_compressBound(input_file_size)
    [] OTHER -> input_file_size

\* params->init / params->cleanup are set (mmap-lz4-compress sets neither)
has_init(a) == a # "lz4_compress"
has_cleanup(a) == a # "lz4_compress"

\* zlib's views: next_in / avail_in, next_out / avail_out
zlib_avail_of_file_size(file, offset) ==
  Min(SizeT(file.file_size - offset), UINT_MAX)

zlib_avail(file, offset) == Min(SizeT(file.mapping_size - offset), UINT_MAX)

\* the flush flag inflate.c run() passes to inflate()
inflate_flag(avail_in, avail_out) ==
  IF avail_out \div INFLATE_MAX_RATIO > avail_in THEN "Z_FINISH"
  ELSE "Z_NO_FLUSH"

\* how far a library call can get: nothing, half, or all of what the views
\* and the stream allow
Amounts(most) == {0, most \div 2, most}

\* (a slip: the running total of the output is not advanced)
advance_without_total(io, c, p) ==
  [io EXCEPT
     !.input_mapping_first_unused_offset = SizeT(@ + c),
     !.output_mapping_first_unused_offset = SizeT(@ + p)]

\* the io_state update shared by the streaming adapters
advance(io, c, p) ==
  [io EXCEPT
     !.input_mapping_first_unused_offset = SizeT(@ + c),
     !.output_mapping_first_unused_offset = SizeT(@ + p),
     !.output_bytes_written = SizeT(@ + p)]

NO_WRITE == [ptr |-> NULL_PTR, len |-> 0]

\* an outcome of params->run: kind = "ok" | "error" | "abort" (a failed
\* assert), the new io_state, finished, what the library consumed (c) and
\* produced (p), and the views it read and wrote
Outcome(kind, io, fin, c, p, rd, wr) ==
  [kind |-> kind, io |-> io, finished |-> fin, c |-> c, p |-> p,
   rd |-> rd, wr |-> wr]

\* *finished of trie.c run(): the whole input buffer was read
zstd_finished(in_pos, in_size) == in_pos = in_size

\* part_001 / part_003 run(): one call of LZ4F_compressFrame / ZSTD_compress2
\* over the whole mappings; cd is the codec: src_total bytes of stream in,
\* dst_total bytes out, in_pos / out_pos done so far
run_compress(io, inf, outf, cd) ==
  { Outcome("error", io, FALSE, 0, 0, NO_WRITE, NO_WRITE) } \cup
  { Outcome("ok",
            [io EXCEPT
               !.input_mapping_first_unused_offset = inf.mapping_size,
               !.output_mapping_first_unused_offset = cd.dst_total,
               !.output_bytes_written = cd.dst_total],
            TRUE, inf.mapping_size, cd.dst_total,
            [ptr |-> inf.mapping, len |-> inf.mapping_size],
            [ptr |-> outf.mapping, len |-> cd.dst_total]) }

\* inflate.c run(): one call of inflate() on the two views
run_inflate(io, inf, outf, cd) ==
  LET in_off == io.input_mapping_first_unused_offset
      out_off == io.output_mapping_first_unused_offset
      next_in == PtrAdd(inf.mapping, in_off)
      next_out == PtrAdd(outf.mapping, out_off)
      avail_in == zlib_avail(inf, in_off)
      avail_out == zlib_avail(outf, out_off)
      flag == inflate_flag(avail_in, avail_out)
      most_in == Min(avail_in, cd.src_total - cd.in_pos)
      most_out == Min(avail_out, cd.dst_total - cd.out_pos)
      \* DEFLATE: what is left of the stream cannot expand to more than
      \* INFLATE_MAX_RATIO times its length; the trailer comes last
      \* and what was read so far cannot have expanded to more either
      Possible(c, p) ==
        /\ cd.dst_total - (cd.out_pos + p)
             <= INFLATE_MAX_RATIO * (cd.src_total - (cd.in_pos + c))
        /\ cd.out_pos + p <= INFLATE_MAX_RATIO * (cd.in_pos + c)
      Ended(c, p) ==
        cd.in_pos + c = cd.src_total /\ cd.out_pos + p = cd.dst_total
      \* Z_FINISH runs as far as the views allow; Z_NO_FLUSH gets somewhere
      \* whenever it can
      Steps == IF flag = "Z_FINISH"
               THEN { <<most_in, most_out>> }
               ELSE LET Some == { cp \in Amounts(most_in) \X Amounts(most_out) :
                                    Possible(cp[1], cp[2]) /\ cp # <<0, 0>> }
                    IN IF Some = {} THEN { <<0, 0>> } ELSE Some
      Of(c, p) ==
        LET rd == [ptr |-> next_in, len |-> c]
            wr == [ptr |-> next_out, len |-> p]
        IN
        IF Ended(c, p)      \* Z_STREAM_END
        THEN Outcome("ok", advance(io, c, p), TRUE, c, p, rd, wr)
        \* Z_BUF_ERROR: assert(errc != Z_BUF_ERROR) aborts; a build without
        \* assertions goes on to format an uninitialized `what`, which
        \* crashes or returns the error that is among the outcomes below
        ELSE IF flag = "Z_FINISH" \/ c + p = 0
        THEN Outcome("abort", io, FALSE, c, p, rd, wr)
        ELSE Outcome("ok", advance(io, c, p), FALSE, c, p, rd, wr)
  IN
  \* Z_DATA_ERROR, Z_MEM_ERROR, Z_NEED_DICT
  { Outcome("error", io, FALSE, 0, 0, NO_WRITE, NO_WRITE) } \cup
  { Of(cp[1], cp[2]) : cp \in Steps }

\* trie.c run(): one call of ZSTD_decompressStream on the two buffers
run_zstd_decompress(io, inf, outf, cd) ==
  LET in_off == io.input_mapping_first_unused_offset
      out_off == io.output_mapping_first_unused_offset
      avail_in == SizeT(inf.mapping_size - in_off)
      avail_out == SizeT(outf.mapping_size - out_off)
      most_in == Min(avail_in, cd.src_total - cd.in_pos)
      most_out == Min(avail_out, cd.dst_total - cd.out_pos)
      \* the library holds decoded bytes back only when the output buffer
      \* is full, it does not return without progress while it can make
      \* some, and no byte comes out before one went in
      Possible(c, p) ==
        /\ (cd.in_pos + c = cd.src_total /\ cd.out_pos + p < cd.dst_total)
             => p = avail_out
        /\ (cd.out_pos + p > 0) => (cd.in_pos + c > 0)
        /\ (c + p = 0) => (most_in = 0 /\ most_out = 0)
      Of(c, p) ==
        Outcome("ok", advance(io, c, p),
                zstd_finished(in_off + c, inf.mapping_size), c, p,
                [ptr |-> PtrAdd(inf.mapping, in_off), len |-> c],
                [ptr |-> PtrAdd(outf.mapping, out_off), len |-> p])
  IN
  { Outcome("error", io, FALSE, 0, 0, NO_WRITE, NO_WRITE) } \cup
  { Of(cp[1], cp[2]) :
      cp \in { x \in Amounts(most_in) \X Amounts(most_out) :
                 Possible(x[1], x[2]) } }

\* an AppRunFunc that sets *finished on its first call and leaves io_state
\* as it found it
run_finish_at_once(io) ==
  { Outcome("error", io, FALSE, 0, 0, NO_WRITE, NO_WRITE),
    Outcome("ok", io, TRUE, 0, 0, NO_WRITE, NO_WRITE) }

\* params->run(&io_state, &finished, arg)
run(a, io, inf, outf, cd) ==
  CASE a \in CompressApps -> run_compress(io, inf, outf, cd)
    [] a \in InterfaceApps -> run_finish_at_once(io)
    [] a = "inflate" -> run_inflate(io, inf, outf, cd)
    [] OTHER -> run_zstd_decompress(io, inf, outf, cd)

----------------------------------------------------------------------------
(* Argument parsing: parse_arguments of argparse.c, find of trie.c *)

\* A C string is the sequence of its characters; the terminating '\0' is the
\* end of the sequence.  A pointer that may be NULL is a record.
NULL_STR == [is_null |-> TRUE, str |-> <<>>]
Str(s) == [is_null |-> FALSE, str |-> s]

NULL_ERROR == ""
ERROR_OUT_OF_MEMORY == "out of memory"

INT_MIN == -2147483647 - 1
LZ4HC_CLEVEL_MAX == 12
ZSTD_MIN_CLEVEL == -131072
ZSTD_MAX_CLEVEL == 22

\* the strings of the option tables
strings ==
  [level |-> <<"l", "e", "v", "e", "l">>,
   strategy |-> <<"s", "t", "r", "a", "t", "e", "g", "y">>,
   fast |-> <<"f", "a", "s", "t">>,
   dfast |-> <<"d", "f", "a", "s", "t">>,
   greedy |-> <<"g", "r", "e", "e", "d", "y">>,
   lazy |-> <<"l", "a", "z", "y">>,
   lazy2 |-> <<"l", "a", "z", "y", "2">>,
   btlazy2 |-> <<"b", "t", "l", "a", "z", "y", "2">>,
   btopt |-> <<"b", "t", "o", "p", "t">>,
   btultra |-> <<"b", "t", "u", "l", "t", "r", "a">>,
   btultra2 |-> <<"b", "t", "u", "l", "t", "r", "a", "2">>,
   block_mode |-> <<"b", "l", "o", "c", "k", "-", "m", "o", "d", "e">>,
   linked |-> <<"l", "i", "n", "k", "e", "d">>,
   independent |-> <<"i", "n", "d", "e", "p", "e", "n", "d", "e", "n", "t">>,
   block_size |-> <<"b", "l", "o", "c", "k", "-", "s", "i", "z", "e">>,
   default |-> <<"d", "e", "f", "a", "u", "l", "t">>,
   size_64KB |-> <<"6", "4", "K", "B">>,
   size_256KB |-> <<"2", "5", "6", "K", "B">>,
   size_1MB |-> <<"1", "M", "B">>,
   size_4MB |-> <<"4", "M", "B">>,
   favor_decompression_speed |->
       <<"f", "a", "v", "o", "r", "-", "d", "e", "c", "o", "m", "p", "r",
       "e", "s", "s", "i", "o", "n", "-", "s", "p", "e", "e", "d">>,
   help |-> <<"h", "e", "l", "p">>,
   version |-> <<"v", "e", "r", "s", "i", "o", "n">>]

\* the words of the command lines explored
words ==
  [l |-> <<"-", "l">>,
   five |-> <<"5">>,
   l5 |-> <<"-", "l", "5">>,
   l_eq_5 |-> <<"-", "l", "=", "5">>,
   level |-> <<"-", "-", "l", "e", "v", "e", "l">>,
   level_eq_5 |-> <<"-", "-", "l", "e", "v", "e", "l", "=", "5">>,
   file |-> <<"i", "n">>,
   d |-> <<"-", "d">>,
   strategy_eq_lazy |->
       <<"-", "-", "s", "t", "r", "a", "t", "e", "g", "y", "=", "l", "a",
       "z", "y">>,
   h |-> <<"-", "h">>,
   executable |-> <<"m", "m", "c">>]

\* ArgumentParser: what its parser callback is and the fields it reads
NULL_PARSER == [kind |-> "null"]
make_integer_parser(min_value, max_value) ==
  [kind |-> "integer", min_value |-> min_value, max_value |-> max_value]
make_string_parser(possible_values) ==
  [kind |-> "string", possible_values |-> possible_values]

KeywordArgument(short_name, long_name, parser) ==
  [short_name |-> short_name, long_name |-> long_name, parser |-> parser]

\* the option tables the frontends hand to the driver; the decompression
\* frontends have no options
keyword_args(a) ==
  CASE a = "zstd_compress" ->
         {KeywordArgument("l", strings.level,
                          make_integer_parser(ZSTD_MIN_CLEVEL,
                                              ZSTD_MAX_CLEVEL)),
          KeywordArgument("s", strings.strategy,
                          make_string_parser(<<strings.fast, strings.dfast, strings.greedy,
                                               strings.lazy, strings.lazy2, strings.btlazy2,
                                               strings.btopt, strings.btultra,
                                               strings.btultra2>>))}
    [] a = "lz4_compress" ->
         {KeywordArgument("m", strings.block_mode,
                          make_string_parser(<<strings.linked, strings.independent>>)),
          KeywordArgument("s", strings.block_size,
                          make_string_parser(<<strings.default, strings.size_64KB, strings.size_256KB,
                                               strings.size_1MB, strings.size_4MB>>)),
          KeywordArgument("d", strings.favor_decompression_speed, NULL_PARSER),
          KeywordArgument("l", strings.level,
                          make_integer_parser(INT_MIN, LZ4HC_CLEVEL_MAX))}
    [] OTHER -> {}

NUM_POSITIONAL_ARGS == 2

ShortNames == {"l", "s", "m", "d"}

\* the options of a frontend that take a value
ValueOptions(a) ==
  {k.short_name : k \in {x \in keyword_args(a) : x.parser # NULL_PARSER}}

Digits == <<"0", "1", "2", "3", "4", "5", "6", "7", "8", "9">>
Letters ==
  {"a", "b", "c", "d", "e", "f", "g", "h", "i", "j", "k", "l", "m", "n", "o",
   "p", "q", "r", "s", "t", "u", "v", "w", "x", "y", "z", "A", "B", "C", "D",
   "E", "F", "G", "H", "I", "J", "K", "L", "M", "N", "O", "P", "Q", "R", "S",
   "T", "U", "V", "W", "X", "Y", "Z"}
IsDigit(ch) == \E d \in 1..10 : Digits[d] = ch
DigitValue(ch) == (CHOOSE d \in 1..10 : Digits[d] = ch) - 1

\* char_to_index(ch) != SIZE_MAX
HasIndex(ch) == ch \in Letters \/ IsDigit(ch)

\* short_option_mapping[char_to_index(ch)]: the option or NULL
NO_ARG == [short_name |-> "", long_name |-> <<>>, parser |-> NULL_PARSER]
short_option_mapping(frontend, ch) ==
  IF \E k \in keyword_args(frontend) : k.short_name = ch
  THEN CHOOSE k \in keyword_args(frontend) : k.short_name = ch
  ELSE NO_ARG

IsPrefix(p, s) == Len(p) <= Len(s) /\ SubSeq(s, 1, Len(p)) = p

\* the trie built by insert_unique from the long names: a node is the path
\* that leads to it
node_value(frontend, path) ==
  IF \E k \in keyword_args(frontend) : k.long_name = path
  THEN CHOOSE k \in keyword_args(frontend) : k.long_name = path
  ELSE NO_ARG
has_child(frontend, path, ch) ==
  \E k \in keyword_args(frontend) : IsPrefix(Append(path, ch), k.long_name)

RECURSIVE find(_, _, _)
find(frontend, node, key) ==
  IF key = <<>>
  THEN [arg |-> node_value(frontend, node), maybe_value |-> NULL_STR]
  ELSE IF Head(key) = "="
  THEN [arg |-> node_value(frontend, node), maybe_value |-> Str(Tail(key))]
  ELSE IF ~HasIndex(Head(key)) /\ Head(key) # "-"
  THEN [arg |-> NO_ARG, maybe_value |-> NULL_STR]
  ELSE IF ~has_child(frontend, node, Head(key))
  THEN [arg |-> NO_ARG, maybe_value |-> NULL_STR]
  ELSE find(frontend, Append(node, Head(key)), Tail(key))

\* strtoll(str, &end, 10) on a string without white space and short enough
\* not to overflow: an optional sign, then digits; end is the index of the
\* first character that was not used, 1 when there are no digits
RECURSIVE digits_end(_, _)
digits_end(str, k) ==
  IF k <= Len(str) /\ IsDigit(str[k]) THEN digits_end(str, k + 1) ELSE k

RECURSIVE digits_value(_, _, _)
digits_value(str, from, to) ==
  IF to < from THEN 0
  ELSE 10 * digits_value(str, from, to - 1) + DigitValue(str[to])

strtoll(str) ==
  LET signed == Len(str) > 0 /\ str[1] \in {"-", "+"}
      first == IF signed THEN 2 ELSE 1
      end == digits_end(str, first)
      magnitude == digits_value(str, first, end - 1)
  IN  IF end = first THEN [value |-> 0, end |-> 1]
      ELSE [value |-> IF signed /\ str[1] = "-" THEN -magnitude
                      ELSE magnitude,
            end |-> end]

\* the parser callbacks: the error and the value the parser then holds
do_parse_integer(self, old_value, maybe_value_str) ==
  LET r == strtoll(maybe_value_str)
  IN  IF maybe_value_str = <<>> \/ r.end <= Len(maybe_value_str)
      THEN [error |-> "couldn't parse as an integer", value |-> old_value]
      ELSE IF r.value < self.min_value \/ r.value > self.max_value
      THEN [error |-> "expected an integer in the range", value |-> old_value]
      ELSE [error |-> NULL_ERROR, value |-> r.value]

do_parse_string(self, old_value, maybe_value_str) ==
  IF \E n \in 1..Len(self.possible_values) :
       self.possible_values[n] = maybe_value_str
  THEN [error |-> NULL_ERROR,
        value |-> (CHOOSE n \in 1..Len(self.possible_values) :
                     self.possible_values[n] = maybe_value_str) - 1]
  ELSE [error |-> "expected one of", value |-> old_value]

parser_call(self, old_value, maybe_value_str) ==
  IF self.kind = "integer"
  THEN do_parse_integer(self, old_value, maybe_value_str)
  ELSE do_parse_string(self, old_value, maybe_value_str)

\* argv[i], argc
Arg(a, i) == a.argv[i + 1]
Argc(a) == Len(a.argv)

\* the short options of one word in the first loop over argv
RECURSIVE scan_short(_, _, _)
scan_short(a, word, k) ==
  IF k > Len(word) THEN "none"
  ELSE IF word[k] = "h" THEN "help"
  ELSE IF word[k] = "v" THEN "version"
  ELSE IF ~HasIndex(word[k]) THEN scan_short(a, word, k + 1)
  ELSE IF short_option_mapping(a, word[k]) = NO_ARG
  THEN scan_short(a, word, k + 1)
  ELSE IF short_option_mapping(a, word[k]).parser # NULL_PARSER THEN "none"
  ELSE scan_short(a, word, k + 1)

\* the first loop over argv: where "--" is, whether help or version is asked
RECURSIVE scan(_, _, _)
scan(a, args, i) ==
  IF i >= Argc(args)
  THEN [last_index |-> Argc(args), has_help |-> FALSE, has_version |-> FALSE]
  ELSE LET this_argument == Arg(args, i)
           asked ==
             IF Len(this_argument) >= 2 /\ this_argument[2] = "-"
             THEN IF SubSeq(this_argument, 3, Len(this_argument)) = strings.help
                  THEN "help"
                  ELSE IF SubSeq(this_argument, 3, Len(this_argument))
                          = strings.version
                  THEN "version"
                  ELSE "none"
             ELSE scan_short(a, this_argument, 2)
       IN  IF this_argument = <<"-", "-">>
           THEN [last_index |-> i, has_help |-> FALSE, has_version |-> FALSE]
           ELSE IF this_argument = <<>> \/ this_argument[1] # "-"
           THEN scan(a, args, i + 1)
           ELSE IF asked = "help"
           THEN [last_index |-> Argc(args), has_help |-> TRUE,
                 has_version |-> FALSE]
           ELSE IF asked = "version"
           THEN [last_index |-> Argc(args), has_help |-> FALSE,
                 has_version |-> TRUE]
           ELSE scan(a, args, i + 1)

\* goto cleanup with an error
fail(args, what) == [args EXCEPT !.error = what, !.at = "returned"]

\* ++i of the second loop, which ends at last_index; the third loop starts
\* at last_index + 1
next_argument(args) ==
  IF args.i + 1 < args.last_index THEN [args EXCEPT !.i = @ + 1]
  ELSE [args EXCEPT !.i = args.last_index + 1, !.at = "trailing"]

\* the parser of a keyword argument returned no error: it holds the value
store(args, keyword_arg, r) ==
  [args EXCEPT !.value[keyword_arg.short_name] = r.value,
               !.supplied = @ \cup {keyword_arg.short_name}]

positional(args, word) ==
  [args EXCEPT !.positional = Append(@, word),
               !.positional_arg_index = @ + 1]

\* the short options of one word in the second loop
RECURSIVE short_options(_, _, _, _)
short_options(a, args, word, k) ==
  IF k > Len(word) THEN next_argument(args)
  ELSE
    LET ch == word[k]
        this_keyword_arg == short_option_mapping(a, ch)
        value_of(maybe_value) ==
          parser_call(this_keyword_arg.parser, args.value[ch], maybe_value)
    IN  IF ~HasIndex(ch) \/ this_keyword_arg = NO_ARG
        THEN fail(args, "unrecognized option")
        ELSE IF this_keyword_arg.parser = NULL_PARSER
        THEN short_options(a, [args EXCEPT !.was_found[ch] = TRUE], word,
                           k + 1)
        ELSE IF k = Len(word)
        THEN \* -k value
             IF args.i + 1 >= args.last_index
             THEN fail(args, "missing required argument")
             ELSE LET r == value_of(Arg(args, args.i + 1))
                  IN  IF r.error # NULL_ERROR THEN fail(args, r.error)
                      ELSE short_options(
                             a, store([args EXCEPT !.i = @ + 1],
                                      this_keyword_arg, r), word, k + 1)
        ELSE \* -k=value, -kvalue
             LET r == value_of(IF word[k + 1] = "="
                               THEN SubSeq(word, k + 2, Len(word))
                               ELSE SubSeq(word, k + 1, Len(word)))
             IN  IF r.error # NULL_ERROR THEN fail(args, r.error)
                 ELSE next_argument(store(args, this_keyword_arg, r))

\* a long option in the second loop
long_option(a, args, word) ==
  LET found == find(a, <<>>, SubSeq(word, 3, Len(word)))
      this_keyword_arg == found.arg
      value_of(maybe_value) ==
        parser_call(this_keyword_arg.parser,
                    args.value[this_keyword_arg.short_name], maybe_value)
  IN  IF keyword_args(a) = {} \/ this_keyword_arg = NO_ARG
      THEN fail(args, "unrecognized option")
      ELSE IF this_keyword_arg.parser = NULL_PARSER
      THEN \* a NULL parser is dereferenced
           [args EXCEPT !.at = "crashed"]
      ELSE IF found.maybe_value.is_null
      THEN \* --key value
           IF args.i + 1 >= args.last_index
           THEN fail(args, "missing required argument")
           ELSE LET r == value_of(Arg(args, args.i + 1))
                IN  IF r.error # NULL_ERROR THEN fail(args, r.error)
                    ELSE next_argument(store([args EXCEPT !.i = @ + 1],
                                       this_keyword_arg, r))
      ELSE \* --key=value
           LET r == value_of(found.maybe_value.str)
           IN  IF r.error # NULL_ERROR THEN fail(args, r.error)
               ELSE next_argument(store(args, this_keyword_arg, r))

\* one iteration of the second loop
parse_argument(a, args) ==
  LET this_argument == Arg(args, args.i)
  IN  IF this_argument = <<>> \/ this_argument[1] # "-"
      THEN IF args.positional_arg_index >= NUM_POSITIONAL_ARGS
           THEN fail(args, "expected fewer positional arguments")
           ELSE next_argument(positional(args, this_argument))
      ELSE IF Len(this_argument) >= 2 /\ this_argument[2] = "-"
      THEN long_option(a, args, this_argument)
      ELSE IF keyword_args(a) = {} THEN fail(args, "unrecognized option")
      ELSE short_options(a, args, this_argument, 2)

\* the words command lines are made of: the five forms of a level, a
\* strategy, the flag of the lz4 frontend, file names, "--" and help
ArgWords ==
  {words.l, words.five, words.l5, words.l_eq_5,
   words.level, words.level_eq_5, words.file, <<"-", "-">>,
   words.d, words.strategy_eq_lazy, words.h}

CommandLines == UNION {[1..n -> ArgWords] : n \in 0..MaxArgs}

\* Arguments, the keyword arguments and their parsers before parse_arguments
\* runs, and the locals of parse_arguments
StartArguments(line) ==
  [argv |-> <<words.executable>> \o line,
   at |-> "scan",
   i |-> 0,
   last_index |-> 0,
   positional_arg_index |-> 0,
   has_help |-> FALSE,
   has_version |-> FALSE,
   error |-> NULL_ERROR,
   was_found |-> [k \in ShortNames |-> FALSE],  \* KeywordArgument.was_found
   value |-> [k \in ShortNames |-> 0],  \* value / value_index of the parser
   positional |-> <<>>,                 \* values of the passthrough parsers
   supplied |-> {},         \* options whose parser accepted a value
   parameters |-> [k \in ShortNames |-> [is_set |-> FALSE, value |-> 0]]]
                            \* what the frontend set on the library's context

\* Arguments after parse_arguments returned for "<executable> in in"
ParsedArguments ==
  [StartArguments(<<words.file, words.file>>) EXCEPT
     !.at = "returned", !.i = 4, !.last_index = 3,
     !.positional_arg_index = 2, !.positional = <<words.file, words.file>>]

----------------------------------------------------------------------------
(* DEFLATE sizing: max_compressed_size and do_compress of the zlib frontend *)

max_compressed_size(uncompressed_size) ==
  LET BLOCK_SIZE == 16000
      num_blocks == IF uncompressed_size % BLOCK_SIZE = 0
                    THEN uncompressed_size \div BLOCK_SIZE + 1
                    ELSE uncompressed_size \div BLOCK_SIZE
  IN  SizeT(uncompressed_size + num_blocks * 5 + 6)

SizingLengths ==
  {k * 16000 + d : k \in 0..MaxBlocks, d \in 0..MaxOffset}
    \cup {k * 16000 - d : k \in 1..MaxBlocks, d \in 1..MaxOffset}

----------------------------------------------------------------------------
(* State *)

VARIABLES
  app,          \* which frontend runs: the AppParams handed to the driver
  pc,           \* where run_transformer_app is
  orig_len,     \* length of the original, uncompressed file
  in_disk_len,  \* on-disk length of the input path of this run
  codec,        \* the library's stream: [src_total, dst_total, in_pos, out_pos]
  io_state,     \* AppIOState without the two files
  input_file,   \* io_state.input_file
  output_file,  \* io_state.output_file
  finished,     \* bool finished (compress.c:526)
  return_code,  \* int return_code (compress.c:471)
  exit_status,  \* what run_transformer_app returned, -1 while it runs
  region,       \* kernel: the mapping of the input ("in") and output ("out")
  open_fds,     \* kernel: descriptors that are open
  out_exists,   \* kernel: the output path exists
  out_disk_len, \* kernel: on-disk length of the output path
  out_content,  \* kernel: what was stored in the output file, as runs
                \*   [foff, src, len]: file bytes foff.. hold the codec's
                \*   output bytes src..
  errors,       \* what print_error reported
  warnings,     \* what print_warning reported
  calls,        \* how often each callee was invoked in this run
  hist,         \* facts about the run so far that the properties refer to
  arguments,    \* Arguments and the keyword arguments of the frontend, the
                \*   locals of parse_arguments and where it is
  stream        \* z_stream of the zlib compressor as do_compress sees it, and
                \*   the input length its output file was created for

\* everything but arguments
driver_vars ==
  <<app, pc, orig_len, in_disk_len, codec, io_state, input_file, output_file,
    finished, return_code, exit_status, region, open_fds, out_exists,
    out_disk_len, out_content, errors, warnings, calls, hist>>

vars ==
  <<app, pc, orig_len, in_disk_len, codec, io_state, input_file, output_file,
    finished, return_code, exit_status, region, open_fds, out_exists,
    out_disk_len, out_content, errors, warnings, calls, hist, arguments,
    stream>>

\* original lengths explored: empty, tiny, below one span, above one span,
\* above two spans
InputSizes == {0, 1, 40000, 70000, 140000}

\* lengths the compressor may produce for n bytes: ratios 8, 2 and 1 plus a
\* frame header
FRAME_OVERHEAD == 13
CompressedSizes(n) ==
  {n \div 8 + FRAME_OVERHEAD, n \div 2 + FRAME_OVERHEAD, n + FRAME_OVERHEAD}

NO_CALLS ==
  [run |-> 0, unmap_input |-> 0, unmap_output |-> 0, expand |-> 0,
   truncate |-> 0, cleanup |-> 0, free_input |-> 0, free_output |-> 0,
   unlink |-> 0]

NO_HIST ==
  [input_opened |-> FALSE,   \* open_and_map_file succeeded
   output_created |-> FALSE, \* create_and_map_file succeeded
   output_touched |-> FALSE, \* the output path was created or truncated
   failed |-> {},            \* the steps that failed
   produced |-> 0,           \* sum of the bytes the adapter reported
   consumed |-> 0,           \* sum of the bytes the adapter consumed
   grows |-> 0,              \* grows that extended the file
   input_in_order |-> TRUE,  \* every input view began at the stream position
   last |-> "none"]          \* the last callee that acted on the files

INIT_IO_STATE ==
  [input_mapping_first_unused_offset |-> 0,
   output_mapping_first_unused_offset |-> 0,
   output_bytes_written |-> 0]

\* the process of frontend a at the place `where` of run_transformer_app,
\* before it touched a file
ProcessStart(a, n_in, cd, where) ==
  /\ app = a
  /\ pc = where
  /\ in_disk_len = n_in
  /\ codec = cd
  /\ io_state = INIT_IO_STATE
  /\ input_file = UNSET_FILE
  /\ output_file = UNSET_FILE
  /\ finished = FALSE
  /\ return_code = EXIT_SUCCESS
  /\ exit_status = -1
  /\ region = [f \in {"in", "out"} |-> NO_REGION]
  /\ open_fds = {}
  /\ out_exists = FALSE
  /\ out_disk_len = 0
  /\ out_content = <<>>
  /\ errors = {}
  /\ warnings = {}
  /\ calls = NO_CALLS
  /\ hist = NO_HIST

\* state of run_transformer_app after argument parsing
Entry(a, n_in, cd) ==
  /\ ProcessStart(a, n_in, cd, "open_input")
  /\ arguments = ParsedArguments
  /\ stream = [sized_for |-> 0, avail_in |-> 0, avail_out |-> 0,
               called_with |-> 0, flag |-> "none", at |-> "unused"]

\* a compression frontend on an original file
InitCompress ==
  \E a \in CompressApps, n \in InputSizes :
    \E m \in CompressedSizes(n) :
      /\ orig_len = n
      /\ Entry(a, n, [src_total |-> n, dst_total |-> m, in_pos |-> 0,
                      out_pos |-> 0])

\* the driver under an adapter that has nothing to do
InitInterface ==
  \E a \in InterfaceApps, n \in InputSizes :
    /\ orig_len = n
    /\ Entry(a, n, [src_total |-> 0, dst_total |-> 0, in_pos |-> 0,
                    out_pos |-> 0])

\* a decompression frontend on the stream of an empty payload, made by
\* another tool of the same format
InitEmptyPayload ==
  \E a \in DecompressApps :
    /\ orig_len = 0
    /\ Entry(a, FRAME_OVERHEAD,
             [src_total |-> FRAME_OVERHEAD, dst_total |-> 0, in_pos |-> 0,
              out_pos |-> 0])

\* a decompression frontend on a file that holds only the first half of a
\* stream
TruncatedStream ==
  [src_total |-> 20000 + FRAME_OVERHEAD, dst_total |-> 40000, in_pos |-> 0,
   out_pos |-> 0]

InitTruncated ==
  \E a \in DecompressApps :
    /\ orig_len = TruncatedStream.dst_total
    /\ Entry(a, TruncatedStream.src_total \div 2, TruncatedStream)

Init == InitCompress \/ InitInterface \/ InitEmptyPayload \/ InitTruncated

\* the forced-growth scenario: a highly compressible original
ForcedGrowthLen == ForcedGrowthStream * ForcedGrowthFactor

InitForcedGrowth ==
  \E a \in CompressApps :
    /\ orig_len = ForcedGrowthLen
    /\ Entry(a, ForcedGrowthLen,
             [src_total |-> ForcedGrowthLen, dst_total |-> ForcedGrowthStream,
              in_pos |-> 0, out_pos |-> 0])

InitTermination ==
  \E a \in CompressApps :
    /\ orig_len = TerminationLen
    /\ Entry(a, TerminationLen,
             [src_total |-> TerminationLen, dst_total |-> TerminationStream,
              in_pos |-> 0, out_pos |-> 0])

\* originals whose length is a whole number of spans, or one byte off
SpanLengths ==
  {k * UNMAP_SPAN_SIZE + d : k \in 1..MaxSpans, d \in {-1, 0, 1}}

\* the span-boundary scenario: a compression frontend on such an original
InitSpanLengths ==
  \E a \in CompressApps, n \in SpanLengths :
    \E m \in CompressedSizes(n) :
      /\ orig_len = n
      /\ Entry(a, n, [src_total |-> n, dst_total |-> m, in_pos |-> 0,
                      out_pos |-> 0])

\* a frontend started on a command line
InitArgparse ==
  \E a \in CompressApps \cup DecompressApps, line \in CommandLines :
    /\ orig_len = 0
    /\ ProcessStart(a, 0, [src_total |-> 0, dst_total |-> 0, in_pos |-> 0,
                           out_pos |-> 0], "parse_arguments")
    /\ arguments = StartArguments(line)
    /\ stream = [sized_for |-> 0, avail_in |-> 0, avail_out |-> 0,
                 called_with |-> 0, flag |-> "none", at |-> "unused"]

\* the zlib compressor before a call of do_compress: the output file was
\* created with max_compressed_size(input_file.size) bytes, and some of the
\* input is left
InitSizing ==
  \E n \in SizingLengths, left \in SizingLengths :
    /\ left <= n
    /\ orig_len = n
    /\ ProcessStart("deflate", n, [src_total |-> n, dst_total |-> 0,
                                   in_pos |-> n - left, out_pos |-> 0],
                    "do_compress")
    /\ arguments = ParsedArguments
    /\ stream = [sized_for |-> n, avail_in |-> left,
                 avail_out |-> max_compressed_size(n), called_with |-> left,
                 flag |-> "none", at |-> "call"]

\* adapter calls explored in the run at hand
RunLimit ==
  CASE orig_len = ForcedGrowthLen -> MaxDeepRuns
    [] orig_len = TerminationLen -> MaxLiveRuns
    [] OTHER -> MaxRuns

----------------------------------------------------------------------------
(* The output file's bytes *)

\* store len codec bytes src.. at file offset foff
Store(content, foff, src, len) ==
  IF len = 0 THEN content
  ELSE IF content # <<>>
          /\ content[Len(content)].foff + content[Len(content)].len = foff
          /\ content[Len(content)].src + content[Len(content)].len = src
  THEN [content EXCEPT ![Len(content)].len = @ + len]
  ELSE Append(content, [foff |-> foff, src |-> src, len |-> len])

\* ftruncate to a shorter length drops the bytes behind it
RECURSIVE Clip(_, _)
Clip(content, length) ==
  IF content = <<>> THEN <<>>
  ELSE LET h == Head(content) IN
       IF h.foff >= length THEN Clip(Tail(content), length)
       ELSE IF h.foff + h.len > length
       THEN <<[h EXCEPT !.len = length - h.foff]>> \o Clip(Tail(content), length)
       ELSE <<h>> \o Clip(Tail(content), length)

\* the file holds exactly the n bytes of the codec's output, in order
HoldsOutput(content, length, n) ==
  /\ length = n
  /\ content = IF n = 0 THEN <<>> ELSE <<[foff |-> 0, src |-> 0, len |-> n]>>

----------------------------------------------------------------------------
(* run_transformer_app, one action per callee it invokes *)

\* where the error branches of the driver jump to
create_error_target == "cleanup_input_only"

\* (a slip: the output is not released after a failed init)
init_error_skips_output == "cleanup_input_only"

init_error_target == "cleanup_files"

\* (a slip: break instead of goto cleanup)
run_error_breaks == "truncate"

run_error_target == "cleanup"

\* (a slip: continue instead of goto cleanup)
expand_error_continues == "run"

expand_error_target == "cleanup"

\* (a slip: a failed unmap ends the loop, as in transform_mapped_file)
unmap_error_is_fatal(next) == "cleanup"

\* after a failed unmap_unused_pages the driver prints a warning and goes on
unmap_error_target(next) == next

\* (a slip: the loop condition is never false)
loop_never_ends(fin) == "run"

\* (a slip: a finished adapter sends the driver straight to the cleanup)
loop_target_skips_truncate(fin) == IF fin THEN "cleanup" ELSE "run"

\* while (!finished): the condition is looked at after the whole body
loop_target(fin) == IF fin THEN "truncate" ELSE "run"

\* (a slip: the mapping-relative offset is taken for the file length)
final_length_relative(io) == io.output_mapping_first_unused_offset

\* the length the output is truncated to after the loop
final_length(io) == io.output_bytes_written

Note(h, what) == [h EXCEPT !.failed = @ \cup {what}]
Count(c, what) == [c EXCEPT ![what] = @ + 1]

\* compress.c:497-503
OpenInput ==
  /\ pc = "open_input"
  /\ \E at \in {"none", "open", "fstat", "mmap"} :
       LET r == open_and_map_file(in_disk_len, at) IN
       IF r.error
       THEN /\ errors' = errors \cup {"open_input"}
            /\ hist' = Note(hist, "open_input")
            /\ exit_status' = EXIT_FAILURE
            /\ pc' = "done"
            /\ UNCHANGED <<input_file, region, open_fds>>
       ELSE /\ input_file' = r.file
            /\ region' = [region EXCEPT !["in"] = r.region]
            /\ open_fds' = open_fds \cup {INPUT_FD}
            /\ hist' = [hist EXCEPT !.input_opened = TRUE]
            /\ pc' = "create_output"
            /\ UNCHANGED <<errors, exit_status>>
  /\ UNCHANGED <<arguments, stream,
                 app, orig_len, in_disk_len, codec, io_state, output_file,
                 finished, return_code, out_exists, out_disk_len, out_content,
                 warnings, calls>>

\* compress.c:505-515
CreateOutput ==
  /\ pc = "create_output"
  /\ \E at \in {"none", "open", "ftruncate", "mmap"} :
       LET output_file_size == size(app, input_file.file_size)
           r == create_and_map_file(output_file_size, at)
       IN
       /\ out_exists' = (out_exists \/ r.created)
       /\ out_disk_len' = IF r.created THEN r.disk_len ELSE out_disk_len
       /\ out_content' = IF r.created THEN <<>> ELSE out_content
       /\ open_fds' = IF r.fd_open THEN open_fds \cup {OUTPUT_FD} ELSE open_fds
       /\ IF r.error
          THEN /\ errors' = errors \cup {"create_output"}
               /\ hist' = [Note(hist, "create_output") EXCEPT
                             !.output_touched = r.created]
               /\ return_code' = EXIT_FAILURE
               /\ pc' = create_error_target
               /\ UNCHANGED <<output_file, region>>
          ELSE /\ output_file' = r.file
               /\ region' = [region EXCEPT !["out"] = r.region]
               /\ hist' = [hist EXCEPT !.output_created = TRUE,
                                       !.output_touched = TRUE]
               /\ pc' = "init"
               /\ UNCHANGED <<errors, return_code>>
  /\ UNCHANGED <<arguments, stream,
                 app, orig_len, in_disk_len, codec, io_state, input_file,
                 finished, exit_status, warnings, calls>>

\* compress.c:517-526
InitAdapter ==
  /\ pc = "init"
  /\ \E ok \in BOOLEAN :
       IF has_init(app) /\ ~ok
       THEN /\ errors' = errors \cup {"init"}
            /\ hist' = Note(hist, "init")
            /\ return_code' = EXIT_FAILURE
            /\ pc' = init_error_target
            /\ UNCHANGED finished
       ELSE /\ finished' = FALSE
            /\ pc' = "run"
            /\ UNCHANGED <<errors, hist, return_code>>
  /\ UNCHANGED <<arguments, stream,
                 app, orig_len, in_disk_len, codec, io_state, input_file,
                 output_file, exit_status, region, open_fds, out_exists,
                 out_disk_len, out_content, warnings, calls>>

\* the library touches memory that is not mapped, or mapped past the end of
\* the file: SIGSEGV / SIGBUS
Faults(o) ==
  \/ ~RangeMapped(region["in"], o.rd.ptr, o.rd.len)
  \/ ~RangeMapped(region["out"], o.wr.ptr, o.wr.len)
  \/ /\ o.wr.len > 0
     /\ FileOffsetAt(region["out"], o.wr.ptr) + o.wr.len > out_disk_len

\* compress.c:529-535: params->run(...), the first statement of the loop body
Run ==
  /\ pc = "run"
  /\ calls.run < RunLimit
  /\ \E o \in run(app, io_state, input_file, output_file, codec) :
       /\ calls' = Count(calls, "run")
       /\ IF o.kind = "abort" \/ (o.kind = "ok" /\ Faults(o))
          THEN /\ pc' = "crashed"
               /\ hist' = [Note(hist, "crash") EXCEPT !.last = "run"]
               /\ UNCHANGED <<codec, io_state, finished, return_code, errors,
                              out_content>>
          ELSE IF o.kind = "error"
          THEN /\ errors' = errors \cup {"run"}
               /\ hist' = [Note(hist, "run") EXCEPT !.last = "run"]
               /\ return_code' = EXIT_FAILURE
               /\ pc' = run_error_target
               /\ UNCHANGED <<codec, io_state, finished, out_content>>
          ELSE /\ io_state' = o.io
               /\ finished' = o.finished
               /\ codec' = [codec EXCEPT !.in_pos = @ + o.c, !.out_pos = @ + o.p]
               /\ out_content' =
                    Store(out_content, FileOffsetAt(region["out"], o.wr.ptr),
                          codec.out_pos, o.wr.len)
               /\ hist' = [hist EXCEPT
                    !.produced = @ + o.p,
                    !.consumed = @ + o.c,
                    !.input_in_order =
                       @ /\ (o.rd.len = 0 \/
                             FileOffsetAt(region["in"], o.rd.ptr) = codec.in_pos),
                    !.last = "run"]
               /\ pc' = "unmap_input"
               /\ UNCHANGED <<return_code, errors>>
  /\ UNCHANGED <<arguments, stream,
                 app, orig_len, in_disk_len, input_file, output_file,
                 exit_status, region, open_fds, out_exists, out_disk_len,
                 warnings>>

\* compress.c:536-542
UnmapInput ==
  /\ pc = "unmap_input"
  /\ \E ok \in BOOLEAN :
       LET r == unmap_unused_pages(input_file, region["in"],
                                   io_state.input_mapping_first_unused_offset,
                                   ok)
       IN
       /\ input_file' = r.file
       /\ region' = [region EXCEPT !["in"] = r.region]
       /\ io_state' = [io_state EXCEPT
                         !.input_mapping_first_unused_offset = r.offset]
       /\ warnings' = IF r.error THEN warnings \cup {"unmap_input"} ELSE warnings
       /\ hist' = [(IF r.error THEN Note(hist, "unmap_input") ELSE hist)
                     EXCEPT !.last = "unmap_input"]
       /\ pc' = IF r.error THEN unmap_error_target("unmap_output")
                ELSE "unmap_output"
  /\ calls' = Count(calls, "unmap_input")
  /\ UNCHANGED <<arguments, stream,
                 app, orig_len, in_disk_len, codec, output_file, finished,
                 return_code, exit_status, open_fds, out_exists, out_disk_len,
                 out_content, errors>>

\* compress.c:544-549
UnmapOutput ==
  /\ pc = "unmap_output"
  /\ \E ok \in BOOLEAN :
       LET r == unmap_unused_pages(output_file, region["out"],
                                   io_state.output_mapping_first_unused_offset,
                                   ok)
       IN
       /\ output_file' = r.file
       /\ region' = [region EXCEPT !["out"] = r.region]
       /\ io_state' = [io_state EXCEPT
                         !.output_mapping_first_unused_offset = r.offset]
       /\ warnings' = IF r.error THEN warnings \cup {"unmap_output"} ELSE warnings
       /\ hist' = [(IF r.error THEN Note(hist, "unmap_output") ELSE hist)
                     EXCEPT !.last = "unmap_output"]
       /\ pc' = IF r.error THEN unmap_error_target("expand") ELSE "expand"
  /\ calls' = Count(calls, "unmap_output")
  /\ UNCHANGED <<arguments, stream,
                 app, orig_len, in_disk_len, codec, input_file, finished,
                 return_code, exit_status, open_fds, out_exists, out_disk_len,
                 out_content, errors>>

\* compress.c:551-560, then the loop condition of line 528
Expand ==
  /\ pc = "expand"
  /\ \E at \in {"none", "ftruncate", "mremap"}, moved \in BOOLEAN :
       LET r == expand_output_mapping(output_file, region["out"], out_disk_len,
                                      io_state.output_mapping_first_unused_offset,
                                      at, moved)
       IN
       /\ output_file' = r.file
       /\ region' = [region EXCEPT !["out"] = r.region]
       /\ out_disk_len' = r.disk_len
       /\ IF r.error
          THEN /\ errors' = errors \cup {"expand"}
               /\ hist' = [Note(Note(hist, "expand"), r.step) EXCEPT
                             !.last = "expand"]
               /\ return_code' = EXIT_FAILURE
               /\ pc' = expand_error_target
          ELSE /\ hist' = [hist EXCEPT
                             !.grows = IF r.grew THEN @ + 1 ELSE @,
                             !.last = "expand"]
               /\ pc' = loop_target(finished)
               /\ UNCHANGED <<errors, return_code>>
  /\ calls' = Count(calls, "expand")
  /\ UNCHANGED <<arguments, stream,
                 app, orig_len, in_disk_len, codec, io_state, input_file,
                 finished, exit_status, open_fds, out_exists, out_content,
                 warnings>>

\* compress.c:562-567
Truncate ==
  /\ pc = "truncate"
  /\ \E ok \in BOOLEAN :
       IF ok
       THEN /\ out_disk_len' = final_length(io_state)
            /\ out_content' = Clip(out_content, final_length(io_state))
            /\ hist' = [hist EXCEPT !.last = "truncate"]
            /\ UNCHANGED <<errors, return_code>>
       ELSE /\ errors' = errors \cup {"truncate"}
            /\ hist' = [Note(hist, "truncate") EXCEPT !.last = "truncate"]
            /\ return_code' = EXIT_FAILURE
            /\ UNCHANGED <<out_disk_len, out_content>>
  /\ calls' = Count(calls, "truncate")
  /\ pc' = "cleanup"
  /\ UNCHANGED <<arguments, stream,
                 app, orig_len, in_disk_len, codec, io_state, input_file,
                 output_file, finished, exit_status, region, open_fds,
                 out_exists, warnings>>

\* compress.c:569-572
Cleanup ==
  /\ pc = "cleanup"
  /\ calls' = IF has_cleanup(app) THEN Count(calls, "cleanup") ELSE calls
  /\ pc' = "cleanup_files"
  /\ UNCHANGED <<arguments, stream,
                 app, orig_len, in_disk_len, codec, io_state, input_file,
                 output_file, finished, return_code, exit_status, region,
                 open_fds, out_exists, out_disk_len, out_content, errors,
                 warnings, hist>>

\* compress.c:574-586: free_file(output_file), then unlink after a failure
CleanupFiles ==
  /\ pc = "cleanup_files"
  /\ \E munmap_ok \in BOOLEAN, close_ok \in BOOLEAN, unlink_ok \in BOOLEAN :
       LET r == free_file(output_file, region["out"], munmap_ok, close_ok)
           rc == IF r.error THEN EXIT_FAILURE ELSE return_code
           unlinked == rc # EXIT_SUCCESS /\ unlink_ok /\ out_exists
       IN
       /\ region' = [region EXCEPT !["out"] = r.region]
       /\ open_fds' = IF r.closed THEN open_fds \ {output_file.fd} ELSE open_fds
       /\ return_code' = rc
       /\ out_exists' = (out_exists /\ ~unlinked)
       /\ errors' = errors \cup (IF r.error THEN {"free_output"} ELSE {})
                           \cup (IF rc # EXIT_SUCCESS /\ ~unlinked
                                 THEN {"unlink"} ELSE {})
       /\ hist' = [hist EXCEPT
                     !.failed = @ \cup (IF r.error THEN {"free_output"} ELSE {})
                                  \cup (IF rc # EXIT_SUCCESS /\ ~unlinked
                                        THEN {"unlink"} ELSE {})]
       /\ calls' = [calls EXCEPT
                      !.free_output = @ + 1,
                      !.unlink = IF rc # EXIT_SUCCESS THEN @ + 1 ELSE @]
  /\ pc' = "cleanup_input_only"
  /\ UNCHANGED <<arguments, stream,
                 app, orig_len, in_disk_len, codec, io_state, input_file,
                 output_file, finished, exit_status, out_disk_len, out_content,
                 warnings>>

\* compress.c:588-595
CleanupInputOnly ==
  /\ pc = "cleanup_input_only"
  /\ \E munmap_ok \in BOOLEAN, close_ok \in BOOLEAN :
       LET r == free_file(input_file, region["in"], munmap_ok, close_ok) IN
       /\ region' = [region EXCEPT !["in"] = r.region]
       /\ open_fds' = IF r.closed THEN open_fds \ {input_file.fd} ELSE open_fds
       /\ errors' = IF r.error THEN errors \cup {"free_input"} ELSE errors
       /\ hist' = IF r.error THEN Note(hist, "free_input") ELSE hist
       /\ exit_status' = IF r.error THEN EXIT_FAILURE ELSE return_code
  /\ calls' = Count(calls, "free_input")
  /\ pc' = "done"
  /\ UNCHANGED <<arguments, stream,
                 app, orig_len, in_disk_len, codec, io_state, input_file,
                 output_file, finished, return_code, out_exists, out_disk_len,
                 out_content, warnings>>

\* The compressed file of a successful compression is handed to a
\* decompression frontend: a new process, whose input is that file.
StartDecompress ==
  /\ pc = "done"
  /\ app \in CompressApps
  /\ exit_status = EXIT_SUCCESS
  /\ out_exists
  /\ HoldsOutput(out_content, out_disk_len, codec.dst_total)
  /\ \E a \in DecompressApps : app' = a
  /\ pc' = "open_input"
  /\ in_disk_len' = out_disk_len
  /\ codec' = [src_total |-> codec.dst_total, dst_total |-> orig_len,
               in_pos |-> 0, out_pos |-> 0]
  /\ io_state' = INIT_IO_STATE
  /\ input_file' = UNSET_FILE
  /\ output_file' = UNSET_FILE
  /\ finished' = FALSE
  /\ return_code' = EXIT_SUCCESS
  /\ exit_status' = -1
  /\ region' = [f \in {"in", "out"} |-> NO_REGION]
  /\ open_fds' = {}
  /\ out_exists' = FALSE
  /\ out_disk_len' = 0
  /\ out_content' = <<>>
  /\ errors' = {}
  /\ warnings' = {}
  /\ calls' = NO_CALLS
  /\ hist' = NO_HIST
  /\ UNCHANGED <<arguments, stream, orig_len>>

Next ==
  \/ OpenInput
  \/ CreateOutput
  \/ InitAdapter
  \/ Run
  \/ UnmapInput
  \/ UnmapOutput
  \/ Expand
  \/ Truncate
  \/ Cleanup
  \/ CleanupFiles
  \/ CleanupInputOnly
  \/ StartDecompress

Spec == Init /\ [][Next]_vars

SpecForcedGrowth == InitForcedGrowth /\ [][Next]_vars

\* the process is scheduled until it returns
SpecSpanLengths == InitSpanLengths /\ [][Next]_vars

SpecTermination == InitTermination /\ [][Next]_vars /\ WF_vars(Next)

----------------------------------------------------------------------------
(* parse_arguments, step by step, and the frontend's use of its result *)

\* the first loop over argv and the construction of the trie
ScanArguments ==
  /\ pc = "parse_arguments"
  /\ arguments.at = "scan"
  /\ LET s == scan(app, arguments, 1)
         scanned == [arguments EXCEPT !.last_index = s.last_index,
                                      !.has_help = s.has_help,
                                      !.has_version = s.has_version]
     IN  IF s.has_help \/ s.has_version
         THEN arguments' = [scanned EXCEPT !.at = "returned"]
         ELSE \/ /\ keyword_args(app) # {}
                 /\ arguments' = fail(scanned, ERROR_OUT_OF_MEMORY)
              \/ arguments' = next_argument([scanned EXCEPT !.at = "parse"])
  /\ UNCHANGED <<driver_vars, stream>>

\* one iteration of the second loop, over argv[1 .. last_index - 1]
ParseArgument ==
  /\ pc = "parse_arguments"
  /\ arguments.at = "parse"
  /\ arguments' = parse_argument(app, arguments)
  /\ UNCHANGED <<driver_vars, stream>>

\* one iteration of the third loop, over the words after "--"
ParseTrailing ==
  /\ pc = "parse_arguments"
  /\ arguments.at = "trailing"
  /\ arguments.i < Argc(arguments)
  /\ arguments' =
       IF arguments.positional_arg_index >= NUM_POSITIONAL_ARGS
       THEN [arguments EXCEPT !.error = "expected fewer positional arguments",
                              !.at = "check"]
       ELSE [positional(arguments, Arg(arguments, arguments.i))
               EXCEPT !.i = @ + 1]
  /\ UNCHANGED <<driver_vars, stream>>

\* the check for missing positional arguments, and the return
CheckPositionals ==
  /\ pc = "parse_arguments"
  /\ \/ arguments.at = "trailing" /\ arguments.i >= Argc(arguments)
     \/ arguments.at = "check"
  /\ arguments' =
       IF arguments.positional_arg_index < NUM_POSITIONAL_ARGS
       THEN fail(arguments, "missing required positional argument")
       ELSE [arguments EXCEPT !.at = "returned"]
  /\ UNCHANGED <<driver_vars, stream>>

\* the frontend reads was_found and sets what was found
ApplyOptions ==
  /\ pc = "parse_arguments"
  /\ arguments.at = "returned"
  /\ arguments.error = NULL_ERROR
  /\ ~arguments.has_help /\ ~arguments.has_version
  /\ arguments' =
       [arguments EXCEPT
          !.at = "applied",
          !.parameters =
            [k \in ShortNames |->
               IF arguments.was_found[k]
               THEN [is_set |-> TRUE, value |-> arguments.value[k]]
               ELSE @[k]]]
  /\ UNCHANGED <<driver_vars, stream>>

NextArgparse ==
  \/ ScanArguments
  \/ ParseArgument
  \/ ParseTrailing
  \/ CheckPositionals
  \/ ApplyOptions

SpecArgparse == InitArgparse /\ [][NextArgparse]_vars

----------------------------------------------------------------------------
(* do_compress, call by call *)

\* One call: the flush flag is chosen by the sizing test, then deflate
\* runs.  With Z_FINISH it ends the stream.  With Z_NO_FLUSH it takes input
\* and may keep it buffered; without input it can make no progress and
\* returns Z_BUF_ERROR, which the assertions reject.
DoCompress ==
  /\ pc = "do_compress"
  /\ stream.at = "call"
  /\ LET flag == IF stream.avail_out >= max_compressed_size(stream.avail_in)
                 THEN "Z_FINISH" ELSE "Z_NO_FLUSH"
         called == [stream EXCEPT !.flag = flag,
                                  !.called_with = stream.avail_in]
     IN  IF flag = "Z_FINISH"
         THEN stream' = [called EXCEPT !.avail_in = 0, !.at = "finished"]
         ELSE IF stream.avail_in = 0
         THEN stream' = [called EXCEPT !.at = "aborted"]
         ELSE \E c \in {1, stream.avail_in} :
                stream' = [called EXCEPT !.avail_in = @ - c]
  /\ UNCHANGED <<driver_vars, arguments>>

SpecSizing == InitSizing /\ [][DoCompress]_vars

----------------------------------------------------------------------------
(* src/lz4_decompress.c: main() of the first mmap-lz4-decompress *)

\* This main() keeps its own loop.  Its locals are kept in io_state as
\* input_first_unused, output_first_unused and output_final_length;
\* output_current_length is output_file.file_size, contents and size of its
\* FileAndMapping are mapping and mapping_size.  codec holds the arguments
\* of the LZ4F_decompress call that is under way.

\* main() in front of its loop: both files are mapped, the output is as long
\* as the input, the decompression context exists
InitLz4Main ==
  \E n \in InputSizes \ {0} :
    LET i == open_and_map_file(n, "none")
        o == create_and_map_file(n, "none")
    IN
    /\ app = "lz4_decompress"
    /\ pc = "while"
    /\ orig_len = n
    /\ in_disk_len = n
    /\ codec = [dstBuffer |-> NULL_PTR, dstSize |-> 0,
                srcBuffer |-> NULL_PTR, srcSize |-> 0]
    /\ io_state = [input_first_unused |-> 0, output_first_unused |-> 0,
                   output_final_length |-> 0]
    /\ input_file = i.file
    /\ output_file = o.file
    /\ finished = FALSE
    /\ return_code = EXIT_SUCCESS
    /\ exit_status = -1
    /\ region = [f \in {"in", "out"} |-> IF f = "in" THEN i.region ELSE o.region]
    /\ open_fds = {INPUT_FD, OUTPUT_FD}
    /\ out_exists = TRUE
    /\ out_disk_len = o.disk_len
    /\ out_content = <<>>
    /\ errors = {}
    /\ warnings = {}
    /\ calls = NO_CALLS
    /\ hist = [NO_HIST EXCEPT !.input_opened = TRUE, !.output_created = TRUE,
                              !.output_touched = TRUE]
    /\ arguments = ParsedArguments
    /\ stream = [sized_for |-> 0, avail_in |-> 0, avail_out |-> 0,
                 called_with |-> 0, flag |-> "none", at |-> "unused"]

\* lz4_decompress.c:135-145: the loop condition, the two lengths and the
\* call of LZ4F_decompress with its four buffer arguments
Lz4Call ==
  /\ pc = "while"
  /\ calls.run < RunLimit
  /\ IF io_state.input_first_unused < input_file.mapping_size
     THEN /\ codec' =
               [dstBuffer |-> PtrAdd(output_file.mapping,
                                     io_state.output_first_unused),
                dstSize |-> SizeT(output_file.mapping_size
                                    - io_state.output_first_unused),
                srcBuffer |-> PtrAdd(input_file.mapping,
                                     io_state.output_first_unused),
                srcSize |-> SizeT(input_file.mapping_size
                                    - io_state.input_first_unused)]
          /\ calls' = Count(calls, "run")
          /\ pc' = "LZ4F_decompress"
     ELSE /\ pc' = "after_loop"
          /\ UNCHANGED <<codec, calls>>
  /\ UNCHANGED <<arguments, stream, app, orig_len, in_disk_len, io_state,
                 input_file, output_file, finished, return_code, exit_status,
                 region, open_fds, out_exists, out_disk_len, out_content,
                 errors, warnings, hist>>

\* lz4_decompress.c:147-193: the decoder returns, then the rest of the loop
\* body: the offsets advance, both mappings are released, the output grows.
\* A decoder sent outside the mappings may be killed by the kernel.
Lz4Body ==
  /\ pc = "LZ4F_decompress"
  /\ \E kind \in {"ok", "error", "killed"},
        c \in Amounts(codec.srcSize), p \in Amounts(codec.dstSize),
        in_ok \in BOOLEAN, out_ok \in BOOLEAN,
        at \in {"none", "ftruncate", "mremap"}, moved \in BOOLEAN :
       LET in_off == SizeT(io_state.input_first_unused + c)
           out_off == SizeT(io_state.output_first_unused + p)
           ri == unmap_unused_pages(input_file, region["in"], in_off, in_ok)
           ro == unmap_unused_pages(output_file, region["out"], out_off,
                                    out_ok)
           rx == expand_output_mapping(ro.file, ro.region, out_disk_len,
                                       ro.offset, at, moved)
           failed == IF ri.error THEN "unmap_input"
                     ELSE IF ro.error THEN "unmap_output"
                     ELSE IF rx.error THEN "expand"
                     ELSE "none"
       IN
       /\ kind = "killed" =>
            \/ ~RangeMapped(region["in"], codec.srcBuffer, codec.srcSize)
            \/ ~RangeMapped(region["out"], codec.dstBuffer, codec.dstSize)
       /\ IF kind = "killed"
          THEN /\ pc' = "crashed"
               /\ hist' = Note(hist, "crash")
               /\ UNCHANGED <<io_state, input_file, output_file, region,
                              out_disk_len, return_code, errors>>
          ELSE IF kind = "error"
          THEN /\ pc' = "after_loop"
               /\ return_code' = EXIT_FAILURE
               /\ errors' = errors \cup {"run"}
               /\ hist' = Note(hist, "run")
               /\ UNCHANGED <<io_state, input_file, output_file, region,
                              out_disk_len>>
          ELSE /\ io_state' =
                    [input_first_unused |->
                       IF ri.error THEN in_off ELSE ri.offset,
                     output_first_unused |->
                       IF ri.error \/ ro.error THEN out_off ELSE ro.offset,
                     output_final_length |->
                       SizeT(io_state.output_final_length + p)]
               /\ input_file' = ri.file
               /\ output_file' = IF ri.error THEN output_file
                                 ELSE IF ro.error THEN ro.file ELSE rx.file
               /\ region' =
                    [f \in {"in", "out"} |->
                       IF f = "in" THEN ri.region
                       ELSE IF ri.error THEN region["out"]
                       ELSE IF ro.error THEN ro.region ELSE rx.region]
               /\ out_disk_len' = IF ri.error \/ ro.error THEN out_disk_len
                                  ELSE rx.disk_len
               /\ hist' = [(IF failed = "none" THEN hist
                            ELSE Note(hist, failed)) EXCEPT
                             !.consumed = @ + c,
                             !.produced = @ + p,
                             !.grows = IF failed = "none" /\ rx.grew
                                       THEN @ + 1 ELSE @]
               /\ errors' = IF failed = "none" THEN errors
                            ELSE errors \cup {failed}
               /\ return_code' = IF failed = "none" THEN return_code
                                 ELSE EXIT_FAILURE
               /\ pc' = IF failed = "none" THEN "while" ELSE "after_loop"
  /\ UNCHANGED <<arguments, stream, app, orig_len, in_disk_len, codec,
                 finished, exit_status, open_fds, out_exists, out_content,
                 warnings, calls>>

\* lz4_decompress.c:196-232: the context is freed, the output is cut to
\* output_final_length, both files are freed, a failed run removes the
\* output
Lz4Exit ==
  /\ pc = "after_loop"
  /\ \E truncate_ok \in BOOLEAN, munmap_ok \in BOOLEAN, close_ok \in BOOLEAN,
        unlink_ok \in BOOLEAN :
       LET rc1 == IF return_code = EXIT_SUCCESS /\ ~truncate_ok
                  THEN EXIT_FAILURE ELSE return_code
           fo == free_file(output_file, region["out"], munmap_ok, close_ok)
           rc2 == IF fo.error THEN EXIT_FAILURE ELSE rc1
           fi == free_file(input_file, region["in"], munmap_ok, close_ok)
           rc3 == IF fi.error THEN EXIT_FAILURE ELSE rc2
       IN
       /\ out_disk_len' = IF return_code = EXIT_SUCCESS /\ truncate_ok
                          THEN io_state.output_final_length ELSE out_disk_len
       /\ region' = [f \in {"in", "out"} |->
                       IF f = "in" THEN fi.region ELSE fo.region]
       /\ open_fds' = open_fds \ {input_file.fd, output_file.fd}
       /\ out_exists' = ~(rc2 # EXIT_SUCCESS /\ unlink_ok)
       /\ return_code' = rc3
       /\ exit_status' = rc3
       /\ errors' = errors
                      \cup (IF rc1 # return_code THEN {"truncate"} ELSE {})
                      \cup (IF fo.error THEN {"free_output"} ELSE {})
                      \cup (IF rc2 # EXIT_SUCCESS /\ ~unlink_ok
                            THEN {"unlink"} ELSE {})
                      \cup (IF fi.error THEN {"free_input"} ELSE {})
  /\ pc' = "done"
  /\ UNCHANGED <<arguments, stream, app, orig_len, in_disk_len, codec,
                 io_state, input_file, output_file, finished, out_content,
                 warnings, calls, hist>>

NextLz4Main == Lz4Call \/ Lz4Body \/ Lz4Exit

SpecLz4Main == InitLz4Main /\ [][NextLz4Main]_vars

----------------------------------------------------------------------------
(* Properties *)

TypeOK ==
  /\ pc \in {"parse_arguments",
             "open_input", "create_output", "init", "run", "unmap_input",
             "unmap_output", "expand", "truncate", "cleanup", "cleanup_files",
             "cleanup_input_only", "done", "crashed",
             "do_compress", "while", "LZ4F_decompress", "after_loop"}
  /\ exit_status \in {-1, EXIT_SUCCESS, EXIT_FAILURE}
  /\ return_code \in {EXIT_SUCCESS, EXIT_FAILURE}

\* the driver has left the loop and is on its way out
Leaving == pc \in {"cleanup", "cleanup_files", "cleanup_input_only", "done"}

\* consumed_offset and produced_offset of the session, from file start
consumed_offset ==
  input_file.mapping_offset + io_state.input_mapping_first_unused_offset
produced_offset ==
  output_file.mapping_offset + io_state.output_mapping_first_unused_offset

\* C1: once the adapter has finished and the final ftruncate has succeeded,
\* the output file's on-disk length is the sum of the bytes the adapter
\* reported producing, whatever was released and grown before.
C1_FinalLengthIsProduced ==
  (finished /\ calls.truncate = 1 /\ "truncate" \notin hist.failed
     /\ out_exists)
    => out_disk_len = hist.produced

\* a successful streaming run that grew the output and released its front
C1_Witness ==
  /\ pc = "done" /\ exit_status = EXIT_SUCCESS /\ app \in DecompressApps
  /\ hist.grows >= 1 /\ output_file.mapping_offset > 0
  /\ hist.produced > UNMAP_SPAN_SIZE /\ out_disk_len = hist.produced

\* C2: round trip: a decompression that exits successfully leaves an output
\* file that is byte for byte the original input of the compression whose
\* result it read, however the codec was stepped through the engine.
C2_RoundTrip ==
  (pc = "done" /\ app \in DecompressApps /\ exit_status = EXIT_SUCCESS
   /\ in_disk_len = codec.src_total)
    => HoldsOutput(out_content, out_disk_len, orig_len)

\* The round trip of the empty input does not start: mmap rejects a length
\* of 0, so open_and_map_file fails on it and the compressor returns before
\* it creates an output.
EmptyInputIsRejected ==
  (app \in CompressApps /\ orig_len = 0)
    => (pc \in {"open_input", "done"} /\ ~hist.input_opened /\ ~out_exists)

\* C3: the logical consumed and produced offsets never exceed the length of
\* their file, and no step of a run decreases them.
C3_MonotonicOffsets ==
  /\ [](consumed_offset <= input_file.file_size
        /\ produced_offset <= output_file.file_size)
  /\ [][pc' # "open_input" =>
          (consumed_offset' >= consumed_offset
           /\ produced_offset' >= produced_offset)]_vars

\* both files had pages released and the loop is in a later iteration
C3_Witness ==
  /\ pc = "run" /\ calls.run >= 2
  /\ input_file.mapping_offset > 0 /\ output_file.mapping_offset > 0
  /\ consumed_offset > input_file.mapping_offset
  /\ produced_offset > output_file.mapping_offset

\* C4: mapping_offset + mapping_size <= file_size holds for both files after
\* any sequence of open/create, release and grow calls, failed ones included.
C4_MappingWithinFile ==
  /\ input_file.mapping_offset + input_file.mapping_size
       <= input_file.file_size
  /\ output_file.mapping_offset + output_file.mapping_size
       <= output_file.file_size

\* the output was grown, then released at its front, then a grow failed at
\* the remap step
C4_Witness ==
  /\ hist.grows >= 1 /\ output_file.mapping_offset > 0
  /\ "mremap" \in hist.failed
  /\ output_file.mapping_offset + output_file.mapping_size
       < output_file.file_size

\* what a release leaves alone: the bytes of the struct `file` at the
\* mapping-relative offsets off.. are mapped after the step (region r2) as
\* before (region r1), at the same addresses and showing the same file
\* bytes, and the new offset off2 into the new struct file2 designates the
\* file byte that off designated
ReleaseKeeps(file, r1, off, file2, r2, off2) ==
  LET kept == file.mapping_size - off
      Probes == {off, off + kept \div 2, file.mapping_size - 1}
  IN
  /\ kept > 0 =>
       /\ RangeMapped(r2, PtrAdd(file.mapping, off), kept)
       /\ \A k \in Probes :
            /\ FileOffsetAt(r1, PtrAdd(file.mapping, k)) # -1
            /\ FileOffsetAt(r2, PtrAdd(file.mapping, k))
                 = FileOffsetAt(r1, PtrAdd(file.mapping, k))
  /\ FileOffsetAt(r2, PtrAdd(file2.mapping, off2))
       = FileOffsetAt(r1, PtrAdd(file.mapping, off))
  /\ file2.mapping_offset + off2 = file.mapping_offset + off

\* C5: a release unmaps only bytes strictly before first_unused_offset: the
\* bytes from first_unused_offset on stay mapped at the same file offsets
\* with the same content, and the decremented offset designates the same
\* file byte as before.
C5_ReleaseKeepsInUse ==
  [][/\ pc = "unmap_input" =>
          ReleaseKeeps(input_file, region["in"],
                       io_state.input_mapping_first_unused_offset,
                       input_file', region'["in"],
                       io_state'.input_mapping_first_unused_offset)
     /\ pc = "unmap_output" =>
          /\ ReleaseKeeps(output_file, region["out"],
                          io_state.output_mapping_first_unused_offset,
                          output_file', region'["out"],
                          io_state'.output_mapping_first_unused_offset)
          /\ out_content' = out_content
          /\ out_disk_len' = out_disk_len]_vars

\* the output had spans released while bytes behind the offset were in use
C5_Witness ==
  /\ pc = "expand" /\ hist.last = "unmap_output"
  /\ output_file.mapping_offset > 0
  /\ region["out"].foff = output_file.mapping_offset
  /\ io_state.output_mapping_first_unused_offset > 0
  /\ io_state.output_mapping_first_unused_offset < output_file.mapping_size

\* C6: after the adapter returned an error the driver calls neither the
\* adapter nor release nor grow again, does not truncate the output to the
\* produced length, and returns EXIT_FAILURE with the error printed.
C6_AdapterErrorAborts ==
  /\ []("run" \in hist.failed =>
          /\ Leaving
          /\ calls.truncate = 0
          /\ "run" \in errors
          /\ return_code = EXIT_FAILURE
          /\ (pc = "done" => exit_status = EXIT_FAILURE))
  /\ [][ "run" \in hist.failed =>
           /\ calls'.run = calls.run
           /\ calls'.unmap_input = calls.unmap_input
           /\ calls'.unmap_output = calls.unmap_output
           /\ calls'.expand = calls.expand
           /\ out_disk_len' = out_disk_len ]_vars

\* the adapter failed in a later iteration, after a release and a grow
C6_Witness ==
  /\ pc = "done" /\ "run" \in hist.failed /\ calls.run >= 2
  /\ calls.expand >= 1 /\ exit_status = EXIT_FAILURE

\* C7: a failed release of the input or of the output only prints a warning:
\* the driver goes on to the next step with return_code unchanged, and a run
\* in which nothing else failed truncates the output to the produced length
\* and returns EXIT_SUCCESS.
C7_ReleaseFailureIsWarning ==
  /\ [][/\ pc = "unmap_input" =>
             (pc' = "unmap_output" /\ return_code' = return_code
              /\ errors' = errors)
        /\ pc = "unmap_output" =>
             (pc' = "expand" /\ return_code' = return_code
              /\ errors' = errors)]_vars
  /\ []((pc = "done" /\ hist.failed # {}
         /\ hist.failed \subseteq {"unmap_input", "unmap_output"})
        => /\ exit_status = EXIT_SUCCESS
           /\ calls.truncate = 1
           /\ out_exists
           /\ out_disk_len = hist.produced
           /\ hist.failed \subseteq warnings)

\* a run in which both releases failed and that still succeeded
C7_Witness ==
  /\ pc = "done" /\ exit_status = EXIT_SUCCESS
  /\ hist.failed = {"unmap_input", "unmap_output"}
  /\ calls.run >= 2 /\ calls.truncate = 1

\* C8: after a grow failed, at the ftruncate or at the mremap step, the
\* driver does not call the adapter again, skips the final truncation and
\* returns EXIT_FAILURE.
C8_GrowFailureAborts ==
  /\ []("expand" \in hist.failed =>
          /\ Leaving
          /\ calls.truncate = 0
          /\ "expand" \in errors
          /\ return_code = EXIT_FAILURE
          /\ (pc = "done" => exit_status = EXIT_FAILURE))
  /\ [][ "expand" \in hist.failed =>
           (calls'.run = calls.run /\ out_disk_len' = out_disk_len) ]_vars

\* a grow failed at the remap step, after the file had been extended
C8_Witness ==
  /\ pc = "done" /\ {"expand", "mremap"} \subseteq hist.failed
  /\ calls.run >= 1 /\ exit_status = EXIT_FAILURE

\* a grow failed at the file-extension step
C8_WitnessTruncate ==
  /\ pc = "done" /\ {"expand", "ftruncate"} \subseteq hist.failed
  /\ exit_status = EXIT_FAILURE

\* C9: when run_transformer_app returns non-zero after it created or
\* truncated the output path, that path no longer exists (given that the
\* unlink it attempts does not itself fail).
C9_NoOutputLeftOnFailure ==
  (pc = "done" /\ exit_status # EXIT_SUCCESS /\ hist.output_touched
     /\ "unlink" \notin hist.failed)
    => ~out_exists

\* C10: when run_transformer_app returns, free_file has been called exactly
\* once on each file that was opened or created, never on one that was not,
\* its descriptor is closed and, unless free_file reported an error, its
\* mapping is gone.
C10_FilesFreedOnce ==
  /\ calls.free_input <= 1 /\ calls.free_output <= 1
  /\ calls.free_input = 1 => hist.input_opened
  /\ calls.free_output = 1 => hist.output_created
  /\ (pc = "done" /\ hist.input_opened) =>
       /\ calls.free_input = 1
       /\ INPUT_FD \notin open_fds
       /\ (region["in"] = NO_REGION \/ "free_input" \in hist.failed)
  /\ (pc = "done" /\ hist.output_created) =>
       /\ calls.free_output = 1
       /\ OUTPUT_FD \notin open_fds
       /\ (region["out"] = NO_REGION \/ "free_output" \in hist.failed)

\* the adapter's init failed after both files were mapped
C10_Witness ==
  /\ pc = "done" /\ "init" \in hist.failed
  /\ calls.free_input = 1 /\ calls.free_output = 1
  /\ region["in"] = NO_REGION /\ region["out"] = NO_REGION
  /\ open_fds = {}

\* the adapter finished on its first call and neither read nor wrote a byte
FinishedWithoutWork ==
  finished /\ calls.run = 1 /\ hist.consumed = 0 /\ hist.produced = 0

ReleaseIsNoOp(file, r, first_unused_offset) ==
  \A ok \in BOOLEAN :
    LET u == unmap_unused_pages(file, r, first_unused_offset, ok) IN
    /\ ~u.called /\ ~u.error
    /\ u.file = file /\ u.region = r /\ u.offset = first_unused_offset

\* C12: whenever the driver, running one of the repository's frontends,
\* calls unmap_unused_pages with an offset of 0 to 65535, the call is a
\* no-op.
C12_ShortOffsetIsNoOp ==
  app \in CompressApps \cup DecompressApps =>
  /\ (pc = "unmap_input"
       /\ io_state.input_mapping_first_unused_offset < UNMAP_SPAN_SIZE)
       => ReleaseIsNoOp(input_file, region["in"],
                        io_state.input_mapping_first_unused_offset)
  /\ (pc = "unmap_output"
       /\ io_state.output_mapping_first_unused_offset < UNMAP_SPAN_SIZE)
       => ReleaseIsNoOp(output_file, region["out"],
                        io_state.output_mapping_first_unused_offset)

\* What the code does instead: offsets 1 to 65536 are a no-op, while at
\* offset 0 the subtraction wraps, a munmap of nearly the whole address
\* space is issued and its failure is returned as an error.
ReleaseAtShortOffsets ==
  \A f \in {"in", "out"} :
    LET file == IF f = "in" THEN input_file ELSE output_file
        off == IF f = "in" THEN io_state.input_mapping_first_unused_offset
               ELSE io_state.output_mapping_first_unused_offset
    IN
    (pc = (IF f = "in" THEN "unmap_input" ELSE "unmap_output")) =>
      /\ (off >= 1 /\ off <= UNMAP_SPAN_SIZE)
           => ReleaseIsNoOp(file, region[f], off)
      /\ off = 0 =>
           \A ok \in BOOLEAN :
             LET u == unmap_unused_pages(file, region[f], off, ok) IN
             u.called /\ u.error /\ u.file = file /\ u.region = region[f]

\* is the call expand_output_mapping(file, first_unused_offset) a no-op: no
\* ftruncate and no mremap is made, whatever they would have returned, and
\* the struct, the mapping and the on-disk length stay as they are
GrowIsNoOp(file, r, disk_len, first_unused_offset) ==
  \A at \in {"none", "ftruncate", "mremap"}, moved \in BOOLEAN :
    LET g == expand_output_mapping(file, r, disk_len, first_unused_offset,
                                   at, moved)
    IN
    /\ ~g.error /\ ~g.grew /\ g.step = "none"
    /\ g.file = file /\ g.region = r /\ g.disk_len = disk_len

\* C13: whenever the driver calls expand_output_mapping with an offset that
\* lies inside the mapping (offset < mapping_size), the call is a no-op.
C13_GrowWithinMappingIsNoOp ==
  (pc = "expand"
   /\ io_state.output_mapping_first_unused_offset < output_file.mapping_size)
    => GrowIsNoOp(output_file, region["out"], out_disk_len,
                  io_state.output_mapping_first_unused_offset)

\* What the code does instead: the early return is taken when the mapping
\* is smaller than the offset, which the driver's offsets never are, so
\* every call goes on to ftruncate and mremap.
GrowNeverReturnsEarly ==
  pc = "expand" =>
    /\ io_state.output_mapping_first_unused_offset <= output_file.mapping_size
    /\ ~expand_not_needed(output_file,
                          io_state.output_mapping_first_unused_offset)

\* C14: a compression whose output was created at least as long as what
\* the adapter produces never grows the output: no grow extends the file or
\* the mapping, and none gets as far as a failing ftruncate or mremap.
C14_NoGrowthWhenBoundHolds ==
  (app \in CompressApps /\ hist.output_created
   /\ codec.dst_total <= size(app, in_disk_len))
    => /\ hist.grows = 0
       /\ hist.failed \cap {"ftruncate", "mremap"} = {}
       /\ output_file.file_size = size(app, in_disk_len)

\* What the code does instead: every iteration that gets to its end grows
\* the output, so a run that reached the final ftruncate has grown it once
\* per adapter call.
GrowsOncePerIteration ==
  calls.truncate = 1 => (hist.grows = calls.run /\ hist.grows >= 1)

\* the least k with 2^k >= n
RECURSIVE CeilLog2(_)
CeilLog2(n) == IF n <= 1 THEN 0 ELSE 1 + CeilLog2((n + 1) \div 2)

RunsUnlimited == pc = "run" => calls.run < RunLimit

\* C16: run_transformer_app, once entered, returns: the loop terminates; and
\* when mmap-inflate returns from a run in which no call failed (the
\* releases apart), the adapter has finished, the output was grown from its
\* initial length to hold everything, and the run has succeeded.
C16_Terminates ==
  /\ (pc = "open_input") ~> (pc = "done")
  /\ []((app = "inflate" /\ pc = "done"
         /\ hist.failed \subseteq {"unmap_input", "unmap_output"})
        => /\ finished
           /\ exit_status = EXIT_SUCCESS
           /\ in_disk_len < orig_len
           /\ output_file.file_size >= orig_len
           /\ out_disk_len = orig_len)

\* mmap-inflate has returned from a run that grew a 3-byte output to hold
\* 12 bytes, over at least three adapter calls
C16_Witness ==
  /\ app = "inflate" /\ pc = "done" /\ exit_status = EXIT_SUCCESS
  /\ in_disk_len = TerminationStream /\ out_disk_len = TerminationLen
  /\ calls.run >= 3 /\ hist.grows >= 3
  /\ hist.failed \subseteq {"unmap_input", "unmap_output"}

\* the input file ends before the stream does
Truncated == app \in DecompressApps /\ in_disk_len < codec.src_total

\* C17: a decompression of a truncated stream does not end in a failed
\* assertion and does not return success: it returns EXIT_FAILURE.
C17_TruncatedInputAborts ==
  Truncated =>
    /\ pc # "crashed"
    /\ pc = "done" => exit_status = EXIT_FAILURE

\* What the code does instead: mmap-zstd-decompress takes the end of the
\* file for the end of the stream, and mmap-inflate, which waits for
\* Z_STREAM_END, never finishes on such a file.
TruncatedNeverFinishesInflate ==
  (Truncated /\ app = "inflate") => (~finished /\ exit_status # EXIT_SUCCESS)

\* free_file(file) closes the descriptor whatever munmap returned, and
\* returns an error exactly when munmap or close failed
FreeFileDoesBoth(file, r) ==
  \A munmap_ok \in BOOLEAN, close_ok \in BOOLEAN :
    LET u == munmap(r, file.mapping, file.mapping_size, munmap_ok)
        f == free_file(file, r, munmap_ok, close_ok)
    IN
    /\ f.closed
    /\ f.error <=> (u.ret = -1 \/ ~close_ok)

\* C18: every free_file call of the driver closes the descriptor, also when
\* the munmap before it failed and left the mapping in place, and reports an
\* error if either call failed.
C18_FreeFileDoesBoth ==
  /\ [](pc = "cleanup_files" => FreeFileDoesBoth(output_file, region["out"]))
  /\ [](pc = "cleanup_input_only"
          => FreeFileDoesBoth(input_file, region["in"]))
  /\ [][/\ pc = "cleanup_files" =>
             /\ output_file.fd \notin open_fds'
             /\ region'["out"] # NO_REGION => "free_output" \in hist'.failed
        /\ pc = "cleanup_input_only" =>
             /\ input_file.fd \notin open_fds'
             /\ region'["in"] # NO_REGION => "free_input" \in hist'.failed
             /\ "free_input" \in hist'.failed => exit_status' = EXIT_FAILURE
       ]_vars

\* the munmap of the output failed in free_file, and its descriptor is closed
C18_Witness ==
  /\ pc = "done" /\ "free_output" \in hist.failed
  /\ region["out"] # NO_REGION /\ hist.output_created
  /\ OUTPUT_FD \notin open_fds /\ exit_status = EXIT_FAILURE

\* C19: a grow that succeeds doubles the file (struct and disk) and extends
\* the mapping by the old file length without moving its offset, so that
\* the mapping ends where the file ends; hence the output, created with G
\* bytes, is G * 2^k bytes long after k grows, whatever was released in
\* between.
C19_GrowDoubles ==
  /\ [][(pc = "expand" /\ hist'.grows = hist.grows + 1) =>
          /\ output_file'.file_size = 2 * output_file.file_size
          /\ out_disk_len' = 2 * out_disk_len
          /\ output_file'.mapping_size
               = output_file.mapping_size + output_file.file_size
          /\ output_file'.mapping_offset = output_file.mapping_offset
          /\ output_file'.mapping_offset + output_file'.mapping_size
               = output_file'.file_size
          /\ region'["out"].hi - region'["out"].lo
               = output_file'.mapping_size]_vars
  /\ []((hist.output_created /\ "mremap" \notin hist.failed) =>
          /\ output_file.file_size
               = size(app, in_disk_len) * 2 ^ hist.grows
          /\ calls.truncate = 0 => out_disk_len = output_file.file_size)

\* the output was grown twice and had pages released
C19_Witness ==
  /\ hist.grows >= 2 /\ output_file.mapping_offset > 0
  /\ output_file.file_size = 4 * size(app, in_disk_len)
  /\ out_disk_len = output_file.file_size

----------------------------------------------------------------------------
(* Options that take a value *)

\* parse_arguments returned without an error and without help or version
ParsedSuccessfully ==
  /\ pc = "parse_arguments"
  /\ arguments.at \in {"returned", "applied"}
  /\ arguments.error = NULL_ERROR
  /\ ~arguments.has_help
  /\ ~arguments.has_version

\* C20: after parse_arguments succeeds on a command line that supplies an
\* option with a valid value, in any of the accepted forms, was_found of
\* that option is true, and the frontend sets the parsed value instead of
\* leaving the default.
C20_SuppliedOptionIsFound ==
  ParsedSuccessfully =>
    \A k \in arguments.supplied :
      /\ arguments.was_found[k]
      /\ (arguments.at = "applied" =>
            arguments.parameters[k] =
              [is_set |-> TRUE, value |-> arguments.value[k]])

\* what the code does instead: was_found is set for no option that takes a
\* value, and the frontend sets none of them
ValueOptionIsNeverFound ==
  \A k \in ValueOptions(app) :
    /\ ~arguments.was_found[k]
    /\ ~arguments.parameters[k].is_set

\* the parser did accept the value: it holds what the command line said
SuppliedLevelIsParsed ==
  (ParsedSuccessfully /\ "l" \in arguments.supplied) => arguments.value["l"] = 5

\* an option without a value is found and applied
FlagIsApplied ==
  (arguments.at = "applied" /\ arguments.was_found["d"]) =>
    arguments.parameters["d"].is_set

----------------------------------------------------------------------------
(* The DEFLATE sizing policy *)

\* C21: for every uncompressed length n, max_compressed_size(n) is
\* n + ceil(n / 16000) * 5 + 6: the length, five bytes for each started
\* block of 16000 bytes and six bytes for the stream.
C21_SizingFormula ==
  stream.at # "unused" =>
    stream.avail_out =
      stream.sized_for + ((stream.sized_for + 15999) \div 16000) * 5 + 6

\* C30: max_compressed_size is monotonically non-decreasing, so with an
\* output sized for n bytes the test of do_compress selects Z_FINISH for
\* every remaining input of at most n bytes.
C30_SizingIsMonotonic ==
  (stream.flag # "none" /\ stream.called_with <= stream.sized_for) =>
    /\ max_compressed_size(stream.called_with)
         <= max_compressed_size(stream.sized_for)
    /\ stream.flag = "Z_FINISH"

----------------------------------------------------------------------------
(* The iteration that finishes *)

\* C22: once an adapter call has returned finished = true, the driver
\* performs no release and no grow in that iteration: what follows the call
\* is the final truncation.
C22_FinishedSkipsReleaseAndGrow ==
  [][(finished /\ pc \notin {"done", "crashed"}) =>
       /\ calls'.unmap_input = calls.unmap_input
       /\ calls'.unmap_output = calls.unmap_output
       /\ calls'.expand = calls.expand]_vars

----------------------------------------------------------------------------
(* The iteration that does not finish *)

\* C23: after an iteration whose adapter call returned finished = false,
\* also one that filled the output view to the end of the mapping, grow is
\* invoked before the next adapter call, so every adapter call after the
\* first is offered an output view of at least one byte (the grow having
\* succeeded and the file length being positive).
C23_GrowBeforeNextCall ==
  (pc = "run" /\ calls.run >= 1) =>
    /\ ~finished
    /\ calls.expand = calls.run
    /\ "expand" \notin hist.failed
    /\ output_file.file_size > 0 =>
         output_file.mapping_size
           > io_state.output_mapping_first_unused_offset

\* the second adapter call, after a first one that filled its output view:
\* what the view holds now is what the grow added, half of the doubled file
C23_Witness ==
  /\ pc = "run"
  /\ calls.run = 1
  /\ output_file.file_size > 0
  /\ output_file.mapping_size - io_state.output_mapping_first_unused_offset
       = output_file.file_size \div 2

----------------------------------------------------------------------------
(* The views handed to zlib *)

\* C24: at every adapter call of the zlib frontend the input view starts at
\* the input mapping's base plus the tracked input offset and the output
\* view at the output mapping's base plus the tracked output offset, as they
\* are after the releases and grows before the call, and each view is
\* min(mapping_size - offset, UINT_MAX) bytes long: neither view leaves its
\* mapping, and each begins at the file byte the session has got to.
C24_ViewsWithinMappings ==
  (pc = "run" /\ app = "inflate") =>
    LET in_off == io_state.input_mapping_first_unused_offset
        out_off == io_state.output_mapping_first_unused_offset
        next_in == PtrAdd(input_file.mapping, in_off)
        next_out == PtrAdd(output_file.mapping, out_off)
        avail_in == zlib_avail(input_file, in_off)
        avail_out == zlib_avail(output_file, out_off)
    IN  /\ in_off <= input_file.mapping_size
        /\ out_off <= output_file.mapping_size
        /\ RangeMapped(region["in"], next_in, avail_in)
        /\ RangeMapped(region["out"], next_out, avail_out)
        /\ avail_in > 0 => FileOffsetAt(region["in"], next_in) = consumed_offset
        /\ avail_out > 0 =>
             FileOffsetAt(region["out"], next_out) = produced_offset

\* a call of inflate.c run() after both files had pages released and the
\* output was grown, with something left in both views
C24_Witness ==
  /\ pc = "run" /\ app = "inflate" /\ calls.run >= 2
  /\ input_file.mapping_offset > 0 /\ output_file.mapping_offset > 0
  /\ hist.grows >= 2
  /\ zlib_avail(input_file, io_state.input_mapping_first_unused_offset) > 0
  /\ zlib_avail(output_file, io_state.output_mapping_first_unused_offset) > 0

----------------------------------------------------------------------------
(* The input view of the first mmap-lz4-decompress *)

\* C25: whenever LZ4F_decompress is under way in main() of
\* mmap-lz4-decompress, the input view it was handed begins at
\* input_file.contents + input_first_unused, spans
\* input_file.size - input_first_unused bytes and lies inside the input
\* mapping.
C25_InputViewAtConsumedOffset ==
  pc = "LZ4F_decompress" =>
    /\ codec.srcBuffer = PtrAdd(input_file.mapping, io_state.input_first_unused)
    /\ codec.srcSize = input_file.mapping_size - io_state.input_first_unused
    /\ RangeMapped(region["in"], codec.srcBuffer, codec.srcSize)

\* what the code does: the input view begins at the offset of the output
\* and has the length that is left of the input
InputViewAtOutputOffset ==
  pc = "LZ4F_decompress" =>
    /\ codec.srcBuffer = PtrAdd(input_file.mapping, io_state.output_first_unused)
    /\ codec.srcSize = input_file.mapping_size - io_state.input_first_unused
    /\ codec.dstBuffer = PtrAdd(output_file.mapping,
                                io_state.output_first_unused)
    /\ RangeMapped(region["out"], codec.dstBuffer, codec.dstSize)

----------------------------------------------------------------------------
(* How much a release unmaps *)

\* C26: whenever first_unused_offset >= 65536 when a release is due,
\* exact multiples of 65536 included, the release, if its munmap succeeds,
\* unmaps floor(first_unused_offset / 65536) spans from the front of the
\* mapping, advances mapping_offset and reduces mapping_size and the
\* tracked offset by that many times 65536, and the tracked offset ends
\* below 65536.
C26_ReleaseUnmapsWholeSpans ==
  LET Released(file, r, off) ==
        LET u == unmap_unused_pages(file, r, off, TRUE)
            bytes == (off \div UNMAP_SPAN_SIZE) * UNMAP_SPAN_SIZE
        IN  (off >= UNMAP_SPAN_SIZE /\ ~u.error) =>
              /\ u.unmapped = bytes
              /\ u.file.mapping = PtrAdd(file.mapping, bytes)
              /\ u.file.mapping_offset = file.mapping_offset + bytes
              /\ u.file.mapping_size = file.mapping_size - bytes
              /\ u.offset = off - bytes
              /\ u.offset < UNMAP_SPAN_SIZE
  IN
  /\ pc = "unmap_input" =>
       Released(input_file, region["in"],
                io_state.input_mapping_first_unused_offset)
  /\ pc = "unmap_output" =>
       Released(output_file, region["out"],
                io_state.output_mapping_first_unused_offset)

\* what the code does: a release whose munmap succeeds unmaps
\* floor((first_unused_offset - 1) / 65536) spans, so that the tracked
\* offset ends in 1..65536
ReleaseUnmapsSpansBeforeLastByte ==
  LET Released(file, r, off) ==
        LET u == unmap_unused_pages(file, r, off, TRUE)
            bytes == ((off - 1) \div UNMAP_SPAN_SIZE) * UNMAP_SPAN_SIZE
        IN  (off >= 1 /\ ~u.error) =>
              /\ u.unmapped = bytes
              /\ u.file.mapping_offset = file.mapping_offset + bytes
              /\ u.file.mapping_size = file.mapping_size - bytes
              /\ u.offset = off - bytes
              /\ u.offset \in 1..UNMAP_SPAN_SIZE
  IN
  /\ pc = "unmap_input" =>
       Released(input_file, region["in"],
                io_state.input_mapping_first_unused_offset)
  /\ pc = "unmap_output" =>
       Released(output_file, region["out"],
                io_state.output_mapping_first_unused_offset)

----------------------------------------------------------------------------
(* The running total of the output *)

\* C27: under a streaming adapter (inflate, Zstandard decompress), at the
\* start of every loop iteration and at the final truncation,
\* output_bytes_written equals output_file.mapping_offset +
\* output_mapping_first_unused_offset, whatever releases and grows
\* succeeded or failed before.
C27_WrittenIsProducedOffset ==
  (app \in DecompressApps /\ pc \in {"run", "truncate"}) =>
    io_state.output_bytes_written
      = output_file.mapping_offset
          + io_state.output_mapping_first_unused_offset

\* a decompression arrives at the truncation after a release of the output
\* that unmapped spans, a release that failed and a grow
C27_Witness ==
  /\ app \in DecompressApps
  /\ pc = "truncate"
  /\ output_file.mapping_offset > 0
  /\ "unmap_output" \in hist.failed
  /\ hist.grows >= 1
  /\ io_state.output_bytes_written > output_file.mapping_offset

----------------------------------------------------------------------------
(* The descriptor of a failed create *)

\* C28: create_and_map_file never returns an error with the descriptor it
\* opened still open, whether the length-setting ftruncate or the mmap
\* failed.
C28_FailedCreateClosesDescriptor ==
  [][(pc = "create_output" /\ "create_output" \in hist'.failed) =>
       OUTPUT_FD \notin open_fds']_vars

\* what the code does: a failed create leaves the descriptor open exactly
\* when the ftruncate failed (the path exists with length 0 although a
\* positive length was asked for); after a failed open or mmap it is not
\* open
CreateLeaksOnlyAfterTruncateFailure ==
  [][(pc = "create_output" /\ "create_output" \in hist'.failed) =>
       (OUTPUT_FD \in open_fds'
          <=> /\ size(app, input_file.file_size) > 0
              /\ hist'.output_touched
              /\ out_disk_len' = 0)]_vars

----------------------------------------------------------------------------
(* Failed releases and grows *)

\* C29: a failed release (munmap was called and removed nothing) leaves
\* mapping, mapping_size, mapping_offset and the tracked offset as they
\* were; a grow that failed at its ftruncate or at its mremap leaves mapping
\* and mapping_size as they were; in both cases the driver's offsets
\* designate the same file bytes as before.
C29_FailureKeepsMapping ==
  [][LET ReleaseFailed(f, off) ==
           num_spans_to_unmap(off) # 0 /\ region'[f] = region[f]
         in_off == io_state.input_mapping_first_unused_offset
         out_off == io_state.output_mapping_first_unused_offset
         SameBytes ==
           /\ io_state' = io_state
           /\ FileOffsetAt(region'["out"],
                           PtrAdd(output_file'.mapping, out_off))
                = FileOffsetAt(region["out"],
                               PtrAdd(output_file.mapping, out_off))
           /\ FileOffsetAt(region'["in"],
                           PtrAdd(input_file'.mapping, in_off))
                = FileOffsetAt(region["in"],
                               PtrAdd(input_file.mapping, in_off))
     IN
     /\ (pc = "unmap_input" /\ ReleaseFailed("in", in_off)) =>
          (input_file' = input_file /\ SameBytes)
     /\ (pc = "unmap_output" /\ ReleaseFailed("out", out_off)) =>
          (output_file' = output_file /\ SameBytes)
     /\ (pc = "expand" /\ "expand" \in hist'.failed) =>
          /\ output_file'.mapping = output_file.mapping
          /\ output_file'.mapping_size = output_file.mapping_size
          /\ output_file'.mapping_offset = output_file.mapping_offset
          /\ region' = region
          /\ SameBytes]_vars

\* a release of the output that was due has failed, and then the grow
\* failed at its mremap
C29_Witness ==
  /\ hist.last = "expand"
  /\ {"unmap_output", "expand", "mremap"} \subseteq hist.failed
  /\ io_state.output_mapping_first_unused_offset > UNMAP_SPAN_SIZE
  /\ output_file.mapping_size > 0

\* a grow has failed at its ftruncate
C29_WitnessTruncate ==
  /\ hist.last = "expand"
  /\ {"expand", "ftruncate"} \subseteq hist.failed
  /\ output_file.mapping_size > 0

====
